---- MODULE Spec2Model ----
(***************************************************************************)
(* Feed polling, de-duplication and delivery engine of the bot:            *)
(*   app/storage/state.py     SQLiteStateStore (chats, feeds, seen,        *)
(*                            user_keywords)                               *)
(*   app/services/rss.py      RSSService (poll_once, _process_feed,        *)
(*                            _collect_matches_from_feed, digest flush)    *)
(*   app/services/summary.py  Summarizer.summarize_full                    *)
(*   provider/vipgold.py      process_gold_and_news                        *)
(*                                                                         *)
(* poll_once and the command handlers are coroutines of one event loop, so *)
(* they interleave only at await points: each action below is the code     *)
(* between two awaits whose effects on shared state are visible.           *)
(***************************************************************************)
EXTENDS Integers, Sequences, FiniteSets, TLC

\* ------------------------------------------------------------- bounds
MaxCycles == 2      \* poll cycles started
MaxEvents == 1      \* disturbances of a run: entries published upstream,
                    \* subscriber commands and failed sends, counted together
MaxMatches == 23    \* keyword matches held by one flush (chunking runs)
MaxCalls == 7       \* summarize_full calls (circuit-breaker runs)

\* -------------------------------------------------- program constants
rss_max_items_per_feed == 10    \* settings.rss_max_items_per_feed
rss_batch_size == 20            \* getattr(settings, "rss_batch_size", 20)
DigestChunk == 10               \* filtered[i:i+10]
summary_cb_errors == 5          \* settings.summary_cb_errors
summary_max_attempts == 6       \* getattr(settings, "summary_max_attempts", 6)

\* ----------------------------------------------------------- universe
Chats == {1, 2}
\* "a1" is admin-curated (ADMIN_FEEDS), "f1" an ordinary feed, "gold" the
\* URL the PROVIDERS matcher accepts.  sorted() orders them as UrlOrder.
UrlOrder == <<"a1", "f1", "gold">>
Urls == {UrlOrder[i] : i \in 1..Len(UrlOrder)}
ADMIN_FEEDS == <<"a1">>
AdminSet == {ADMIN_FEEDS[i] : i \in 1..Len(ADMIN_FEEDS)}
\* keywords in the order Python iterates _keyword_global_matches[cid]
KeywordOrder == <<"k1">>
KeywordPool == {KeywordOrder[i] : i \in 1..Len(KeywordOrder)}
NewsKey == 100      \* _make_key of the one news item the provider collects

\* re.search(rf"(?<!\w){k}(?!\w)", title+desc): entries with an odd id carry
\* the keyword in their text.
Matches(e, k) == k = "k1" /\ e % 2 = 1

\* PROVIDERS[0][0]: "xminit.com/vip/goldir" in url
ProviderMatches(u) == u = "gold"

\* PROVIDERS: the (matcher, handler) pairs in list order, each named by its
\* handler
PROVIDERS == <<"process_gold_and_news">>
matcher(i, u) == i = 1 /\ ProviderMatches(u)

\* settings.prompt_lang ("fa" unless PROMPT_LANG is set), normalised
DEFAULT_LANG == "fa"
\* the languages whose messages.<lang>.json the bot has loaded (_LOCALES)
LoadedLangs == {"fa", "en"}
\* language codes as a caller may pass them ("": None or empty)
LangCodes == {"", "fa", "en", "EN-us", "de"}

\* _norm_lang: (code or DEFAULT_LANG or "en").strip().lower(), cut at the
\* first "-"
norm_lang(code) ==
    IF code = "" THEN DEFAULT_LANG
    ELSE IF code = "EN-us" THEN "en"
    ELSE code

\* ------------------------------------------------------------ helpers
Min(a, b) == IF a < b THEN a ELSE b
RangeOf(s) == {s[i] : i \in 1..Len(s)}
Reverse(s) == [i \in 1..Len(s) |-> s[Len(s) + 1 - i]]
Prefix(s, n) == SubSeq(s, 1, Min(n, Len(s)))
\* sorted(list): the members of S in UrlOrder
SortedUrls(S) == SelectSeq(UrlOrder, LAMBDA u: u \in S)
NoFeed == [ok |-> FALSE, entries |-> <<>>]
Feed(es) == [ok |-> TRUE, entries |-> es]

VARIABLES
    \* SQLiteStateStore
    chats,          \* chats table: set of chat ids
    feeds,          \* feeds table: chat -> set of urls
    seen,           \* seen table: chat -> url -> set of item ids
    keywords,       \* user_keywords table: chat -> sequence (ORDER BY id)
    kvLast,         \* kv table, key "last_news_item": chat -> set of news keys
    \* RSSService fields
    cursor,         \* _cursor_per_chat
    fallbackCache,  \* _fallback_cache: chat -> items searched inside the throttle window
    kwKnown,        \* chats that are keys of _keyword_global_matches
    kwMatches,      \* _keyword_global_matches: chat -> keyword -> <<eid, url>>*
    kwSeenGlobal,   \* _keyword_seen_global: chat -> set of eids
    adminSeenCache, \* _admin_seen_cache: chat -> url -> set of eids
    statsSent,      \* stats["sent"]
    statsSkipped,   \* stats["skipped"]
    \* poll_once: position and locals
    phase,          \* "idle" | "setup" | "fetch" | "admin" | "join" | "flush"
    queue,          \* chats of iter_chats() still to process
    cur,            \* cid_int (0: none)
    batch,          \* batch_user
    pollKw,         \* keywords (read at line 893)
    tasks,          \* proc_tasks: url -> [pc, seenL, todo]
    flushQ,         \* digest chunks still to send: <<kw, chunk>>*
    \* the world
    upstream,       \* url -> entries as the site lists them
    nextId,
    \* bookkeeping of the runs (not program state)
    cycle,
    nEvt,           \* disturbances so far
    delivered,      \* chat -> {<<url, eid>>} successfully sent so far
    redelivered,    \* an item was sent again to a chat that already had it
    everAdded,      \* chat -> urls the chat passed to add_feed (or owned at start)
    actor,          \* chat the last step acted for (0: none)
    blocked,        \* chats for which a send reported blocked / not_found
    entryLog,       \* url -> eids sent as entry messages to cur in this cycle
    digestLog,      \* digests attempted for cur in this cycle: [kw, items, ok]*
    provLog,        \* urls whose provider message was sent to cur in this cycle
    srcLog,         \* url -> the steps poll_once took for it for cur in this cycle
    runNow,         \* chat -> what this run fetched and whether it was clean
    runPrev,        \* chat -> the same of the previous run
    idem,           \* is this run of cur an identical re-run of a clean one?
    \* one entry taken through the delivery stages (pipeline runs)
    pipe,           \* [in: the inputs of entry_pipeline, out: its result or NoResult]
    \* Summarizer (circuit-breaker runs)
    fail_count,     \* self._fail_count
    cooldown_until, \* self._cooldown_until (0: None)
    streak,         \* summarize_full calls in a row whose external calls all failed
    cbOpen,         \* summary_cb_errors failures in a row happened less than
                    \* summary_cb_cooldown_sec ago
    lastCall,       \* the last summarize_full call: [inWindow, ext, empty]
    nCalls,
    \* the store's operations called one by one (store runs)
    lastOp,         \* the last call: [op, c, u, ret]
    \* one entry fetched repeatedly (identity runs)
    entry,          \* the entry as the site serves it: [id, link, title, published]
    ids,            \* entry_id of each fetch so far
    \* the chats' languages
    lang,           \* chats.lang column: chat -> language code
    \* the database file (persistence runs)
    disk,           \* the rows a store opened on the file now would read
    commitOk,       \* the commit that ended the last store call succeeded
    nOps,           \* store calls made so far
    \* one call of i18n.t (translation runs)
    trCall,         \* [locales, lang, page: the inputs; out: the result or NoOut]
    \* calls of Summarizer.summarize on one Summarizer (summary runs)
    smCall,         \* [title, text: lengths; key: api_key; lang: prompt_lang;
                    \*  outs: what each call so far did]
    \* the round-robin cursor of one chat with many feeds (cursor runs)
    rr,             \* [n: feeds held; kw: has keywords; adminPos: place of the
                    \*  admin url in the sorted feeds, 0 if not held;
                    \*  cursor: _cursor_per_chat[cid]; hist: one record per cycle]
    \* the fetches of one chat's iteration (fetch runs)
    fl,             \* [phase; n: batch length; kw: has keywords; w, f: fetches
                    \*  waiting for / holding the poll semaphore; tasks: the
                    \*  _process_feed tasks that reach the search fallback]
    \* the languages of one poll cycle (language runs)
    safeOp,         \* the last call of _get_seen_safe / _set_seen_safe (seen runs)
    lgRun,          \* [store: chats.lang; prompt: summarizer.prompt_lang;
                    \*  queue, cur, chat_lang: the iteration of poll_once;
                    \*  call: the summarize_full call in flight; outs: what was
                    \*  sent; nSet: language changes so far]
    thr,            \* [now: time.time(); cache: _fallback_cache; log: the polls of each pair; n: polls so far; done: pairs delivered] (throttle runs)
    gm,             \* [pos: where _key_cycle stands; draws: the key of each get_gemini_key call; calls: the key of each _call_ai call; last: the last summarize_full call] (Gemini runs)
    rq,             \* the requests issued so far, each [op, url] (guard runs)
    keyword_events, \* the rows of table keyword_events: [chat_id, keyword, feed_url, item_id]
    prv,            \* [listed: what the site lists; before, seen: the seen-set of (chat, url) before and after; out: the items rendered; ran] (provider runs)
    pay             \* [status, ref_id, days: the payments row of one authority; sub: end_date of the chat (0: no row); now; first: status, ref_id and end_date after the first successful confirm; n: confirms so far] (payment runs)

storeVars == <<chats, feeds, seen, keywords, kvLast>>
rssVars == <<cursor, fallbackCache, kwKnown, kwMatches, kwSeenGlobal,
             adminSeenCache, statsSent, statsSkipped>>
pollVars == <<phase, queue, cur, batch, pollKw, tasks, flushQ>>
worldVars == <<upstream, nextId>>
logVars == <<entryLog, digestLog, provLog, srcLog>>
runVars == <<runNow, runPrev, idem>>
bookVars == <<cycle, nEvt, delivered, redelivered, everAdded, actor, blocked>>
langVars == <<lang>>
mainVars == <<storeVars, rssVars, pollVars, worldVars, logVars, runVars, bookVars,
              langVars>>
sumVars == <<fail_count, cooldown_until, streak, cbOpen, lastCall, nCalls>>
idVars == <<entry, ids>>
persistVars == <<disk, commitOk, nOps>>
in2Vars == <<thr, gm, rq, keyword_events, prv, pay>>
thr_rest == <<gm, rq, keyword_events, prv, pay>>
gm_rest == <<thr, rq, keyword_events, prv, pay>>
rq_rest == <<thr, gm, keyword_events, prv, pay>>
keyword_events_rest == <<thr, gm, rq, prv, pay>>
prv_rest == <<thr, gm, rq, keyword_events, pay>>
pay_rest == <<thr, gm, rq, keyword_events, prv>>
inputVars == <<trCall, smCall, rr, fl, lgRun, safeOp>>
aux3Vars == <<persistVars, inputVars, in2Vars>>
auxVars == <<pipe, sumVars, lastOp, idVars, aux3Vars>>
vars == <<mainVars, auxVars>>


\* ------------------------------------------------- SQLiteStateStore
\* The store and the admin-seen cache as one value, so that a handler's
\* successive reads and writes can be threaded through it.
Db == [chats |-> chats, feeds |-> feeds, seen |-> seen, kv |-> kvLast,
       cache |-> adminSeenCache]

\* set_seen: u.startswith("seen_admin::") or u.startswith("takhfifan_seen::");
\* no URL of the universe carries these prefixes.
is_special_feed(u) == FALSE

list_feeds(S, c) == S.feeds[c]

get_seen(S, c, u) == S.seen[c][u]

\* set_kv(chat_id, "last_news_item", item)
set_kv(S, c, X) == [S EXCEPT !.kv[c] = X]

\* Variants of set_seen that differ from the code: one that writes the chats
\* and feeds rows but loses the seen rows, one that keys the seen rows by url
\* alone.
set_seen_forgets(S, c, u, X) ==
    [S EXCEPT !.chats = @ \cup {c}, !.feeds[c] = @ \cup {u}]
set_seen_shared(S, c, u, X) ==
    [S EXCEPT !.chats = @ \cup {c}, !.feeds[c] = @ \cup {u},
              !.seen = [d \in Chats |-> [@[d] EXCEPT ![u] = X]]]

\* INSERT OR IGNORE INTO chats; INSERT OR IGNORE INTO feeds (unless special);
\* DELETE FROM seen WHERE chat_id, feed_url; INSERT every item of seen_set.
set_seen(S, c, u, X) ==
    [S EXCEPT !.chats = @ \cup {c},
              !.feeds[c] = IF is_special_feed(u) THEN @ ELSE @ \cup {u},
              !.seen[c][u] = X]

\* add_feed: INSERT OR IGNORE INTO chats; INSERT INTO feeds (IntegrityError ignored)
add_feed(S, c, u) ==
    [S EXCEPT !.chats = @ \cup {c}, !.feeds[c] = @ \cup {u}]

\* add_feed ends with "return True" on every path
add_feed_returns(S, c, u) == TRUE

\* Variant of remove_feed that deletes the seen rows of every url of the chat.
remove_feed_all_seen(S, c, u) ==
    IF u \notin S.feeds[c] THEN S
    ELSE [S EXCEPT !.seen[c] = [v \in Urls |-> {}], !.feeds[c] = @ \ {u}]

\* remove_feed: no row -> unchanged; else DELETE FROM seen, DELETE FROM feeds
remove_feed(S, c, u) ==
    IF u \notin S.feeds[c] THEN S
    ELSE [S EXCEPT !.seen[c][u] = {}, !.feeds[c] = @ \ {u}]

\* remove_feed returns False when the feeds row is missing, else True
remove_feed_returns(S, c, u) == u \in S.feeds[c]

\* drop_chat: no chats row -> False; else DELETE FROM chats.  The feeds and
\* seen rows of the chat go with it (FOREIGN KEY ... ON DELETE CASCADE under
\* PRAGMA foreign_keys=ON); user_keywords and kv declare no foreign key.
drop_chat(S, c) ==
    IF c \notin S.chats THEN S
    ELSE [S EXCEPT !.chats = @ \ {c}, !.feeds[c] = {},
                   !.seen[c] = [u \in Urls |-> {}]]
drop_chat_returns(S, c) == c \in S.chats

\* delete_chat: DELETE FROM chats, feeds, user_keywords, seen WHERE chat_id
delete_chat(S, c) ==
    [S EXCEPT !.chats = @ \ {c}, !.feeds[c] = {}, !.seen[c] = [u \in Urls |-> {}]]
delete_chat_keywords(K, c) == [K EXCEPT ![c] = <<>>]

\* ------------------------------------------------------- RSSService
\* _get_seen_safe / _set_seen_safe: an admin feed the chat does not own lives
\* in _admin_seen_cache, everything else in the store.
\* Variant that never uses the cache.
use_admin_cache_never(S, c, u) == FALSE

\* Variant that uses the cache for every admin feed.
use_admin_cache_owned(S, c, u) == u \in AdminSet

use_admin_cache(S, c, u) == u \in AdminSet /\ u \notin list_feeds(S, c)

get_seen_safe(S, c, u) ==
    IF use_admin_cache(S, c, u) THEN S.cache[c][u] ELSE get_seen(S, c, u)

set_seen_safe(S, c, u, X) ==
    IF use_admin_cache(S, c, u) THEN [S EXCEPT !.cache[c][u] = X]
    ELSE set_seen(S, c, u, X)

\* entries[:cap]
CapEntries(f) == Prefix(f.entries, rss_max_items_per_feed)

\* for k in keywords: if re.search(...): ...; break  -- index of the first
\* keyword the entry matches, 0 if none
FirstMatch(e, kws) ==
    LET idx == {i \in 1..Len(kws) : Matches(e, kws[i])}
    IN IF idx = {} THEN 0 ELSE CHOOSE i \in idx : \A j \in idx : i <= j

\* The keyword accumulators of one chat: [known, m, g] =
\* (cid in _keyword_global_matches, _keyword_global_matches[cid], _keyword_seen_global[cid])
Acc(c) == [known |-> c \in kwKnown, m |-> kwMatches[c], g |-> kwSeenGlobal[c]]
NoMatches == [k \in KeywordPool |-> <<>>]

\* _process_feed, lines 654-672: collect the keyword matches of the new entries
RECURSIVE pf_collect(_, _, _, _, _, _)
pf_collect(S, c, u, es, kws, A) ==
    IF es = <<>> THEN A
    ELSE LET e == Head(es)
             i == FirstMatch(e, kws)
             A1 == IF e \in A.g \/ i = 0 THEN A
                   ELSE IF e \in get_seen_safe(S, c, u)
                        THEN [A EXCEPT !.g = @ \cup {e}]
                        ELSE [A EXCEPT !.m[kws[i]] = Append(@, <<e, u>>),
                                       !.g = @ \cup {e}]
         IN pf_collect(S, c, u, Tail(es), kws, A1)

\* for eid, e in reversed(new_entries)
delivery_order(new) == Reverse(new)

TaskDone == [pc |-> "done", seenL |-> {}, todo |-> <<>>]

\* What the provider call of one dispatch does: it raises, or
\* _collect_news_from_range picks no item, or it picks the news item.
ProviderOutcomes(us) ==
    IF \E i \in 1..Len(us) : ProviderMatches(us[i])
    THEN {"raise", "none", "news"} ELSE {"none"}
NewsOf(pv) == IF pv = "news" THEN {NewsKey} ELSE {}

\* process_gold_and_news -> process_news for chat c, url u.  news: the keys
\* _collect_news_from_range picked.  The new keys are written to seen and to
\* "last_news_item" before the message is returned; the message is never
\* empty (the gold part is always built).
process_news(S, c, u, news) ==
    LET new == news \ get_seen(S, c, u)
    IN [db |-> IF new = {} THEN S
               ELSE set_kv(set_seen(S, c, u, get_seen(S, c, u) \cup new), c, new),
        new |-> new]

\* _process_feed up to its first await (lines 610-741), for chat c, url u and
\* parsed feed f: the store and accumulators it leaves and the task it
\* becomes.  pv is what the provider does if u is a provider url.
process_feed_sync(S, c, u, f, A, pv) ==
    LET kws == keywords[c]
        owned == u \in list_feeds(S, c)
        new0 == SelectSeq(CapEntries(f), LAMBDA e: e \notin get_seen_safe(S, c, u))
        A0 == IF kws # <<>> /\ ~A.known
              THEN [known |-> TRUE, m |-> NoMatches, g |-> {}] ELSE A
        A1 == IF kws # <<>> THEN pf_collect(S, c, u, new0, kws, A0) ELSE A
        seen0 == get_seen(S, c, u)
        new1 == SelectSeq(CapEntries(f), LAMBDA e: e \notin seen0)
    IN IF ~owned /\ u \notin AdminSet /\ kws = <<>>
       THEN [db |-> S, acc |-> A, task |-> TaskDone]
       ELSE IF kws # <<>> /\ u \in AdminSet /\ ~owned
       THEN [db |-> S, acc |-> A1, task |-> TaskDone]
       ELSE IF ProviderMatches(u)
       THEN IF pv = "raise"
            THEN [db |-> S, acc |-> A1, task |-> TaskDone]
            ELSE LET n == process_news(S, c, u, NewsOf(pv))
                 IN [db |-> n.db, acc |-> A1,
                     task |-> [pc |-> "prov", seenL |-> n.new, todo |-> <<>>]]
       ELSE IF new1 = <<>>
       THEN [db |-> S, acc |-> A1, task |-> TaskDone]
       ELSE [db |-> S, acc |-> A1,
             task |-> [pc |-> "run", seenL |-> seen0, todo |-> delivery_order(new1)]]

\* for matcher, fn in PROVIDERS: if matcher(url): ...; return  -- the index of
\* the first pair whose matcher accepts u, 0 if none does
FirstProvider(u) ==
    LET idx == {i \in 1..Len(PROVIDERS) : matcher(i, u)}
    IN IF idx = {} THEN 0 ELSE CHOOSE i \in idx : \A j \in idx : i <= j

\* Variant that takes a feed's entries through the per-entry path before it
\* looks at PROVIDERS.
source_steps_entries_first(S, c, u, f, pv) ==
    <<"fetch_feed">> \o
    (IF f.ok THEN <<"entries", "providers">> \o
                  (IF FirstProvider(u) = 0 THEN <<>> ELSE <<PROVIDERS[FirstProvider(u)]>>)
     ELSE <<"providers">>)

\* The steps poll_once and _process_feed take for batch url u of chat c, in
\* the order of the code: "fetch_feed" (_fetch_feed, line 927), "providers"
\* (a loop over PROVIDERS, lines 938-945 and 711-727), the name of the handler
\* called, "raise" (the handler raised), "collect" (keyword collection, lines
\* 654-672), "entries" (the per-entry path from line 729 on).
source_steps(S, c, u, f, pv) ==
    LET kws == keywords[c]
        owned == u \in list_feeds(S, c)
        i == FirstProvider(u)
        inTask == IF ~owned /\ u \notin AdminSet /\ kws = <<>> THEN <<>>
                  ELSE (IF kws # <<>> THEN <<"collect">> ELSE <<>>) \o
                       (IF kws # <<>> /\ u \in AdminSet /\ ~owned THEN <<>>
                        ELSE <<"providers">> \o
                             (IF i = 0 THEN <<"entries">>
                              ELSE <<PROVIDERS[i]>> \o
                                   (IF pv = "raise" THEN <<"raise">> ELSE <<>>)))
    IN <<"fetch_feed">> \o
       (IF f.ok THEN inTask
        ELSE <<"providers">> \o (IF i = 0 THEN <<>> ELSE inTask))

\* Variant in which a provider call that raises takes down every task of the
\* chat.
RECURSIVE dispatch_raise_aborts(_, _, _, _, _, _, _)
dispatch_raise_aborts(S, c, us, r, A, T, pv) ==
    IF us = <<>>
    THEN [db |-> S, acc |-> A,
          tasks |-> IF pv = "raise" THEN [v \in Urls |-> TaskDone] ELSE T]
    ELSE LET u == Head(us)
             pf == process_feed_sync(S, c, u, r[u], A, pv)
         IN IF r[u].ok \/ ProviderMatches(u)
            THEN dispatch_raise_aborts(pf.db, c, Tail(us), r, pf.acc,
                                       [T EXCEPT ![u] = pf.task], pv)
            ELSE dispatch_raise_aborts(S, c, Tail(us), r, A, T, pv)

\* poll_once lines 936-953: one task per batch url, each run to its first
\* await in creation order.  r maps the batch urls to their fetch results.
RECURSIVE dispatch(_, _, _, _, _, _, _)
dispatch(S, c, us, r, A, T, pv) ==
    IF us = <<>> THEN [db |-> S, acc |-> A, tasks |-> T]
    ELSE LET u == Head(us)
             created == r[u].ok \/ ProviderMatches(u)
             pf == process_feed_sync(S, c, u, r[u], A, pv)
         IN IF created
            THEN dispatch(pf.db, c, Tail(us), r, pf.acc, [T EXCEPT ![u] = pf.task], pv)
            ELSE dispatch(S, c, Tail(us), r, A, T, pv)

\* _collect_matches_from_feed for chat c, admin url u, parsed feed f
RECURSIVE collect_entries(_, _, _, _, _, _)
collect_entries(S, c, u, es, kws, A) ==
    IF es = <<>> THEN [db |-> S, acc |-> A]
    ELSE LET e == Head(es)
             dbseen == get_seen_safe(S, c, u)
             i == FirstMatch(e, kws)
         IN IF e \in A.g THEN collect_entries(S, c, u, Tail(es), kws, A)
            ELSE IF e \in dbseen
            THEN collect_entries(S, c, u, Tail(es), kws, [A EXCEPT !.g = @ \cup {e}])
            ELSE IF i = 0 THEN collect_entries(S, c, u, Tail(es), kws, A)
            ELSE collect_entries(
                     set_seen_safe(S, c, u, dbseen \cup {e}), c, u, Tail(es), kws,
                     [A EXCEPT !.m[kws[i]] = Append(@, <<e, u>>), !.g = @ \cup {e}])

collect_matches_from_feed(S, c, u, f, kws, A) ==
    IF ~f.ok \/ f.entries = <<>> THEN [db |-> S, acc |-> A]
    ELSE collect_entries(S, c, u, CapEntries(f), kws,
             IF A.known THEN A ELSE [known |-> TRUE, m |-> NoMatches, g |-> {}])

\* poll_once lines 960-965 and 973: the scan tasks of the admin candidates,
\* which have no await and run back to back in creation order
RECURSIVE admin_scan(_, _, _, _, _, _)
admin_scan(S, c, us, r, kws, A) ==
    IF us = <<>> THEN [db |-> S, acc |-> A]
    ELSE LET u == Head(us)
             one == collect_matches_from_feed(S, c, u, r[u], kws, A)
         IN admin_scan(one.db, c, Tail(us), r, kws, one.acc)

\* Variant whose slices end one item early.
Chunks_short(items) ==
    [j \in 1..((Len(items) + DigestChunk - 1) \div DigestChunk) |->
        SubSeq(items, (j - 1) * DigestChunk + 1, Min(j * DigestChunk, Len(items)) - 1)]

\* chunks = [filtered[i:i+10] for i in range(0, len(filtered), 10)]
Chunks(items) ==
    [j \in 1..((Len(items) + DigestChunk - 1) \div DigestChunk) |->
        SubSeq(items, (j - 1) * DigestChunk + 1, Min(j * DigestChunk, Len(items)))]

\* the digests of one keyword, each paired with the keyword
KwChunks(k, items) == [j \in 1..Len(Chunks(items)) |-> <<k, Chunks(items)[j]>>]

\* for _, e, _, url in chunk: seen = _get_seen_safe; seen.add(eid); _set_seen_safe
RECURSIVE mark_chunk_seen(_, _, _)
mark_chunk_seen(S, c, chunk) ==
    IF chunk = <<>> THEN S
    ELSE LET e == Head(chunk)[1]
             u == Head(chunk)[2]
         IN mark_chunk_seen(set_seen_safe(S, c, u, get_seen_safe(S, c, u) \cup {e}),
                            c, Tail(chunk))

\* Variant that tries the title-only stage before the search fallback.
entry_pipeline_title_first(struct, titled, throttled, searchYield, ok1, ok2, ok3) ==
    LET sent1 == struct /\ ok1
        sent3 == ~sent1 /\ ok3
        try2 == ~sent1 /\ ~sent3 /\ titled /\ ~throttled
        sent2 == try2 /\ searchYield /\ ok2
    IN [tpl |-> IF sent1 THEN "premium" ELSE IF sent3 THEN "title"
                ELSE IF sent2 THEN "search" ELSE "none",
        searched |-> try2,
        fails |-> (IF struct /\ ~ok1 THEN 1 ELSE 0)
                  + (IF ~sent1 /\ ~ok3 THEN 1 ELSE 0)
                  + (IF try2 /\ searchYield /\ ~ok2 THEN 1 ELSE 0)]

\* _process_feed lines 741-861 for one entry.  struct: summarize_full gave a
\* tldr or bullets; titled: the entry has a title; throttled: the pair is
\* inside the search throttle window; searchYield: the search fallback
\* produced content; ok1..ok3: the send of each stage succeeds.
\* tpl is the template of the message delivered ("none": entry skipped).
entry_pipeline(struct, titled, throttled, searchYield, ok1, ok2, ok3) ==
    LET sent1 == struct /\ ok1
        try2 == ~sent1 /\ titled /\ ~throttled
        sent2 == try2 /\ searchYield /\ ok2
        try3 == ~sent1 /\ ~sent2
        sent3 == try3 /\ ok3
    IN [tpl |-> IF sent1 THEN "premium" ELSE IF sent2 THEN "search"
                ELSE IF sent3 THEN "title" ELSE "none",
        searched |-> try2,
        fails |-> (IF struct /\ ~ok1 THEN 1 ELSE 0)
                  + (IF try2 /\ searchYield /\ ~ok2 THEN 1 ELSE 0)
                  + (IF try3 /\ ~ok3 THEN 1 ELSE 0)]


\* ---------------------------------------------------- run bookkeeping
NoRun == [on |-> FALSE, clean |-> TRUE, b |-> <<>>, u |-> <<>>, a |-> <<>>, kw |-> <<>>]
NoTasks == [u \in Urls |-> TaskDone]
NoLog == [u \in Urls |-> <<>>]
NoSteps == [u \in Urls |-> <<>>]

\* This run of chat c fetched exactly what its previous run fetched, the
\* previous run's sends all succeeded and no command touched c in between.
SameAsPrev(c, now) ==
    /\ runPrev[c].on /\ runPrev[c].clean /\ now.on
    /\ runPrev[c].b = now.b /\ runPrev[c].u = now.u
    /\ runPrev[c].a = now.a /\ runPrev[c].kw = now.kw

Touch(r, c) == [r EXCEPT ![c].on = FALSE]

\* delivered and redelivered after sending the items of X to chat c
DeliverTo(c, X) ==
    /\ delivered' = [delivered EXCEPT ![c] = @ \cup X]
    /\ redelivered' = (redelivered \/ (X \cap delivered[c] # {}))

WriteDb(S) ==
    /\ chats' = S.chats
    /\ feeds' = S.feeds
    /\ seen' = S.seen
    /\ kvLast' = S.kv
    /\ adminSeenCache' = S.cache

WriteAcc(c, A) ==
    /\ kwKnown' = IF A.known THEN kwKnown \cup {c} ELSE kwKnown
    /\ kwMatches' = [kwMatches EXCEPT ![c] = A.m]
    /\ kwSeenGlobal' = [kwSeenGlobal EXCEPT ![c] = A.g]

\* ------------------------------------------------------------ poll_once
\* lines 867-872: reset the stats, snapshot iter_chats() (ORDER BY chat_id)
StartPoll ==
    /\ UNCHANGED <<auxVars, langVars>>
    /\ phase = "idle"
    /\ cycle < MaxCycles
    /\ cycle' = cycle + 1
    /\ phase' = "setup"
    /\ queue' = SelectSeq(<<1, 2>>, LAMBDA c: c \in chats)
    /\ statsSent' = 0
    /\ statsSkipped' = 0
    /\ actor' = 0
    /\ UNCHANGED <<storeVars, cursor, fallbackCache, kwKnown, kwMatches, kwSeenGlobal,
                   adminSeenCache, cur, batch, pollKw, tasks, flushQ, worldVars,
                   logVars, runVars, nEvt, delivered, redelivered, everAdded, blocked>>

\* lines 872-916 for the next chat: feeds, keywords, the cursor's batch
SetupChat ==
    /\ UNCHANGED <<auxVars, langVars>>
    /\ phase = "setup"
    /\ queue # <<>>
    /\ LET c == Head(queue)
           uf == SortedUrls(list_feeds(Db, c))
           kws == keywords[c]
           start == IF cursor[c] >= Len(uf) THEN 0 ELSE cursor[c]
           end == Min(Len(uf), start + rss_batch_size)
       IN /\ queue' = Tail(queue)
          /\ actor' = c
          /\ IF uf = <<>> /\ kws = <<>>
             THEN /\ runPrev' = [runPrev EXCEPT ![c] = NoRun]
                  /\ UNCHANGED <<phase, cur, batch, pollKw, tasks, cursor, logVars,
                                 runNow, idem>>
             ELSE /\ phase' = "fetch"
                  /\ cur' = c
                  /\ batch' = SubSeq(uf, start + 1, end)
                  /\ cursor' = [cursor EXCEPT ![c] = IF end < Len(uf) THEN end ELSE 0]
                  /\ pollKw' = kws
                  /\ tasks' = NoTasks
                  /\ entryLog' = NoLog
                  /\ digestLog' = <<>>
                  /\ provLog' = {}
                  /\ srcLog' = NoSteps
                  /\ runNow' = [runNow EXCEPT ![c] = [NoRun EXCEPT !.on = TRUE, !.kw = kws]]
                  /\ idem' = FALSE
                  /\ UNCHANGED runPrev
    /\ UNCHANGED <<storeVars, fallbackCache, kwKnown, kwMatches, kwSeenGlobal,
                   adminSeenCache, statsSent, statsSkipped, flushQ, worldVars,
                   cycle, nEvt, delivered, redelivered, everAdded, blocked>>

\* _fetch_feed: the parsed feed as the site lists it now, or None
FetchResult(u, ok) == IF ok THEN Feed(upstream[u]) ELSE NoFeed

\* lines 926-953: the batch is fetched, one task per url is created and each
\* runs to its first await
Dispatch ==
    /\ UNCHANGED <<auxVars, langVars>>
    /\ phase = "fetch"
    /\ \E okf \in [RangeOf(batch) -> BOOLEAN], pv \in ProviderOutcomes(batch) :
        LET r == [u \in RangeOf(batch) |-> FetchResult(u, okf[u])]
            d == dispatch(Db, cur, batch, r, Acc(cur), NoTasks, pv)
            scan == pollKw # <<>> /\ ADMIN_FEEDS # <<>>
            now == [runNow[cur] EXCEPT !.b = batch,
                                       !.u = [i \in 1..Len(batch) |-> r[batch[i]]]]
        IN /\ WriteDb(d.db)
           /\ WriteAcc(cur, d.acc)
           /\ tasks' = d.tasks
           /\ phase' = IF scan THEN "admin" ELSE "join"
           /\ runNow' = [runNow EXCEPT ![cur] = now]
           /\ idem' = (~scan /\ SameAsPrev(cur, now))
           /\ srcLog' = [u \in Urls |-> IF u \in RangeOf(batch)
                                         THEN source_steps(Db, cur, u, r[u], pv)
                                         ELSE <<>>]
    /\ actor' = cur
    /\ UNCHANGED <<keywords, cursor, fallbackCache, statsSent,
                   statsSkipped, queue, cur, batch, pollKw, flushQ, worldVars,
                   entryLog, digestLog, provLog,
                   runPrev, cycle, nEvt, delivered, redelivered, everAdded, blocked>>

\* lines 956-965: the admin candidates are fetched and scanned for keywords
AdminScan ==
    /\ UNCHANGED <<auxVars, langVars>>
    /\ phase = "admin"
    /\ \E okf \in [AdminSet -> BOOLEAN] :
        LET r == [u \in AdminSet |-> FetchResult(u, okf[u])]
            a == admin_scan(Db, cur, ADMIN_FEEDS, r, pollKw, Acc(cur))
            now == [runNow[cur] EXCEPT
                       !.a = [i \in 1..Len(ADMIN_FEEDS) |-> r[ADMIN_FEEDS[i]]]]
        IN /\ WriteDb(a.db)
           /\ WriteAcc(cur, a.acc)
           /\ runNow' = [runNow EXCEPT ![cur] = now]
           /\ idem' = SameAsPrev(cur, now)
    /\ phase' = "join"
    /\ actor' = cur
    /\ UNCHANGED <<keywords, cursor, fallbackCache, statsSent, statsSkipped,
                   queue, cur, batch, pollKw, tasks, flushQ, worldVars, logVars,
                   runPrev, cycle, nEvt, delivered, redelivered, everAdded, blocked>>

\* Variant that ends the task after the entry at hand.
AdvanceTask_halts(t) == TaskDone

\* the loop over reversed(new_entries) moves on to the next entry
AdvanceTask(t) ==
    IF Len(t.todo) <= 1 THEN TaskDone ELSE [t EXCEPT !.todo = Tail(@)]

\* _process_feed lines 741-861: the next entry of the task of url u
ProcessEntry(u) ==
    /\ UNCHANGED <<auxVars, langVars>>
    /\ phase \in {"admin", "join"}
    /\ tasks[u].pc = "run"
    /\ \E struct, sy, ok1, ok2, ok3, perm \in BOOLEAN :
        LET e == Head(tasks[u].todo)
            p == entry_pipeline(struct, TRUE, e \in fallbackCache[cur], sy, ok1, ok2, ok3)
            seenL == tasks[u].seenL \cup {e}
        IN /\ nEvt + p.fails <= MaxEvents
           /\ (struct \/ ok1) /\ (p.searched \/ sy) /\ ((p.searched /\ sy) \/ ok2)
           /\ nEvt' = nEvt + p.fails
           /\ perm => p.fails > 0
           /\ blocked' = IF perm THEN blocked \cup {cur} ELSE blocked
           /\ fallbackCache' = IF p.searched
                               THEN [fallbackCache EXCEPT ![cur] = @ \cup {e}]
                               ELSE fallbackCache
           /\ runNow' = IF p.fails > 0 THEN [runNow EXCEPT ![cur].clean = FALSE]
                        ELSE runNow
           /\ IF p.tpl # "none"
              THEN /\ statsSent' = statsSent + 1
                   /\ WriteDb(set_seen(Db, cur, u, seenL))
                   /\ tasks' = [tasks EXCEPT ![u] = AdvanceTask([@ EXCEPT !.seenL = seenL])]
                   /\ entryLog' = [entryLog EXCEPT ![u] = Append(@, e)]
                   /\ DeliverTo(cur, {<<u, e>>})
                   /\ UNCHANGED statsSkipped
              ELSE /\ statsSkipped' = statsSkipped + 1
                   /\ tasks' = [tasks EXCEPT ![u] = AdvanceTask(@)]
                   /\ UNCHANGED <<chats, feeds, seen, kvLast, adminSeenCache, statsSent,
                                  entryLog, delivered, redelivered>>
    /\ actor' = cur
    /\ UNCHANGED <<keywords, cursor, kwKnown, kwMatches, kwSeenGlobal,
                   phase, queue, cur, batch, pollKw, flushQ, worldVars, digestLog,
                   provLog, srcLog, runPrev, idem, cycle, everAdded>>


\* _process_feed lines 711-724: the message the provider returned is sent
ProviderStep(u) ==
    /\ UNCHANGED <<auxVars, langVars>>
    /\ phase \in {"admin", "join"}
    /\ tasks[u].pc = "prov"
    /\ \E ok, perm \in BOOLEAN :
        /\ ok \/ nEvt < MaxEvents
        /\ perm => ~ok
        /\ blocked' = IF perm THEN blocked \cup {cur} ELSE blocked
        /\ IF ok
           THEN /\ statsSent' = statsSent + 1
                /\ provLog' = provLog \cup {u}
                /\ DeliverTo(cur, {<<u, e>> : e \in tasks[u].seenL})
                /\ UNCHANGED <<nEvt, runNow>>
           ELSE /\ nEvt' = nEvt + 1
                /\ runNow' = [runNow EXCEPT ![cur].clean = FALSE]
                /\ UNCHANGED <<statsSent, provLog, delivered, redelivered>>
    /\ tasks' = [tasks EXCEPT ![u] = TaskDone]
    /\ actor' = cur
    /\ UNCHANGED <<storeVars, cursor, fallbackCache, kwKnown, kwMatches, kwSeenGlobal,
                   adminSeenCache, statsSkipped, phase, queue, cur, batch, pollKw,
                   flushQ, worldVars, entryLog, digestLog, srcLog, runPrev, idem, cycle,
                   everAdded>>

\* the digests of the keywords, in the order the accumulator is iterated
RECURSIVE AllChunks(_, _)
AllChunks(ks, m) ==
    IF ks = <<>> THEN <<>> ELSE KwChunks(Head(ks), m[Head(ks)]) \o AllChunks(Tail(ks), m)

\* Variant that does not wait for the tasks.
Join_early ==
    /\ UNCHANGED <<auxVars, langVars>>
    /\ phase = "join"
    /\ phase' = "flush"
    /\ flushQ' = IF cur \in kwKnown THEN AllChunks(KeywordOrder, kwMatches[cur]) ELSE <<>>
    /\ actor' = cur
    /\ UNCHANGED <<storeVars, rssVars, queue, cur, batch, pollKw, tasks, worldVars,
                   logVars, runVars, cycle, nEvt, delivered, redelivered,
                   everAdded, blocked>>

\* lines 968-984: every task of the chat has finished; the digests are built
Join ==
    /\ UNCHANGED <<auxVars, langVars>>
    /\ phase = "join"
    /\ \A u \in Urls : tasks[u].pc = "done"
    /\ phase' = "flush"
    /\ flushQ' = IF cur \in kwKnown THEN AllChunks(KeywordOrder, kwMatches[cur]) ELSE <<>>
    /\ actor' = cur
    /\ UNCHANGED <<storeVars, rssVars, queue, cur, batch, pollKw, tasks, worldVars,
                   logVars, runVars, cycle, nEvt, delivered, redelivered,
                   everAdded, blocked>>

ChunkItems(chunk) == {<<chunk[i][2], chunk[i][1]>> : i \in 1..Len(chunk)}

\* lines 994-1063: one digest is sent, then its items are marked seen
FlushChunk ==
    /\ UNCHANGED <<auxVars, langVars>>
    /\ phase = "flush"
    /\ flushQ # <<>>
    /\ \E ok, perm \in BOOLEAN :
        LET kw == Head(flushQ)[1]
            chunk == Head(flushQ)[2]
        IN /\ ok \/ nEvt < MaxEvents
           /\ perm => ~ok
           /\ blocked' = IF perm THEN blocked \cup {cur} ELSE blocked
           /\ nEvt' = IF ok THEN nEvt ELSE nEvt + 1
           /\ runNow' = IF ok THEN runNow ELSE [runNow EXCEPT ![cur].clean = FALSE]
           /\ digestLog' = Append(digestLog, [kw |-> kw, items |-> chunk, ok |-> ok])
           /\ DeliverTo(cur, IF ok THEN ChunkItems(chunk) ELSE {})
           /\ WriteDb(mark_chunk_seen(Db, cur, chunk))
           /\ statsSent' = statsSent + Len(chunk)
    /\ flushQ' = Tail(flushQ)
    /\ actor' = cur
    /\ UNCHANGED <<keywords, cursor, fallbackCache, kwKnown, kwMatches, kwSeenGlobal,
                   statsSkipped, phase, queue, cur, batch, pollKw, tasks, worldVars,
                   entryLog, provLog, srcLog, runPrev, idem, cycle, everAdded>>

\* Variant that leaves the accumulators of the chat as they are.
FinishChat_keeps ==
    /\ UNCHANGED <<auxVars, langVars>>
    /\ phase = "flush"
    /\ flushQ = <<>>
    /\ phase' = "setup"
    /\ runPrev' = [runPrev EXCEPT ![cur] = runNow[cur]]
    /\ actor' = cur
    /\ UNCHANGED <<storeVars, cursor, fallbackCache, kwKnown, kwMatches, kwSeenGlobal,
                   adminSeenCache, statsSent, statsSkipped, queue, cur, batch, pollKw,
                   tasks, flushQ, worldVars, logVars, runNow, idem, cycle, nEvt,
                   delivered, redelivered, everAdded, blocked>>

\* lines 1066-1067: the accumulators of the chat are cleared; next chat
FinishChat ==
    /\ UNCHANGED <<auxVars, langVars>>
    /\ phase = "flush"
    /\ flushQ = <<>>
    /\ phase' = "setup"
    /\ kwMatches' = IF cur \in kwKnown THEN [kwMatches EXCEPT ![cur] = NoMatches]
                    ELSE kwMatches
    /\ kwSeenGlobal' = IF cur \in kwKnown THEN [kwSeenGlobal EXCEPT ![cur] = {}]
                       ELSE kwSeenGlobal
    /\ runPrev' = [runPrev EXCEPT ![cur] = runNow[cur]]
    /\ actor' = cur
    /\ UNCHANGED <<storeVars, cursor, fallbackCache, kwKnown, adminSeenCache,
                   statsSent, statsSkipped, queue, cur, batch, pollKw, tasks, flushQ,
                   worldVars, logVars, runNow, idem, cycle, nEvt,
                   delivered, redelivered, everAdded, blocked>>

\* the loop over iter_chats() is exhausted: poll_once returns
EndPoll ==
    /\ UNCHANGED <<auxVars, langVars>>
    /\ phase = "setup"
    /\ queue = <<>>
    /\ phase' = "idle"
    /\ actor' = 0
    /\ UNCHANGED <<storeVars, rssVars, queue, cur, batch, pollKw, tasks, flushQ,
                   worldVars, logVars, runVars, cycle, nEvt, delivered,
                   redelivered, everAdded, blocked>>

\* The store is unavailable: list_feeds or list_keywords raises at lines
\* 892-893 (for the next chat) or list_feeds at line 931 (after the fetch of
\* the current one).  No try block of poll_once encloses these calls, so the
\* exception ends poll_once; the job queue logs it and calls poll_once again
\* at the next interval.
StoreFault ==
    /\ UNCHANGED <<auxVars, langVars>>
    /\ phase \in {"setup", "fetch"}
    /\ phase = "setup" => queue # <<>>
    /\ nEvt < MaxEvents
    /\ nEvt' = nEvt + 1
    /\ phase' = "idle"
    /\ queue' = <<>>
    /\ idem' = FALSE
    /\ actor' = IF phase = "setup" THEN Head(queue) ELSE cur
    /\ UNCHANGED <<storeVars, rssVars, cur, batch, pollKw, tasks, flushQ, worldVars,
                   logVars, runNow, runPrev, cycle, delivered, redelivered,
                   everAdded, blocked>>

\* ------------------------------------------------------------ the world
\* a site publishes a new entry; feeds list newest first
Publish(u) ==
    /\ UNCHANGED <<auxVars, langVars>>
    /\ ~ProviderMatches(u)
    /\ nEvt < MaxEvents
    /\ nEvt' = nEvt + 1
    /\ upstream' = [upstream EXCEPT ![u] = <<nextId>> \o @]
    /\ nextId' = nextId + 1
    /\ actor' = 0
    /\ UNCHANGED <<storeVars, rssVars, pollVars, logVars, runVars, cycle,
                   delivered, redelivered, everAdded, blocked>>

\* search_fallback_throttle_sec have passed since the (chat, entry) pair was
\* searched; the window is longer than a cycle, so it runs out between cycles
ThrottleElapse(c, e) ==
    /\ UNCHANGED <<auxVars, langVars>>
    /\ e \in fallbackCache[c]
    /\ phase = "idle"
    /\ fallbackCache' = [fallbackCache EXCEPT ![c] = @ \ {e}]
    /\ actor' = 0
    /\ UNCHANGED <<storeVars, cursor, kwKnown, kwMatches, kwSeenGlobal, adminSeenCache,
                   statsSent, statsSkipped, pollVars, worldVars, logVars, runVars,
                   cycle, nEvt, delivered, redelivered, everAdded, blocked>>

\* ------------------------------------------------------------- commands
\* a command of chat c ran: its runs are no longer comparable
Command(c) ==
    /\ UNCHANGED <<auxVars, langVars>>
    /\ nEvt < MaxEvents
    /\ nEvt' = nEvt + 1
    /\ actor' = c
    /\ runNow' = Touch(runNow, c)
    /\ runPrev' = Touch(runPrev, c)
    /\ idem' = (idem /\ c # cur)

\* handlers/feeds.py: store.add_feed(chat_id, site)
AddFeed(c, u) ==
    /\ u \notin feeds[c]
    /\ Command(c)
    /\ WriteDb(add_feed(Db, c, u))
    /\ everAdded' = [everAdded EXCEPT ![c] = @ \cup {u}]
    /\ UNCHANGED <<keywords, cursor, fallbackCache, kwKnown, kwMatches, kwSeenGlobal,
                   statsSent, statsSkipped, pollVars, worldVars, logVars, cycle, delivered, redelivered, blocked>>

\* handlers/feeds.py: store.remove_feed(cid, url)
RemoveFeed(c, u) ==
    /\ u \in feeds[c]
    /\ Command(c)
    /\ WriteDb(remove_feed(Db, c, u))
    /\ UNCHANGED <<keywords, cursor, fallbackCache, kwKnown, kwMatches, kwSeenGlobal,
                   statsSent, statsSkipped, pollVars, worldVars, logVars, cycle, delivered, redelivered, everAdded, blocked>>

\* add_keyword: INSERT OR IGNORE INTO user_keywords
add_keyword(K, c, k) ==
    IF k \in RangeOf(K[c]) THEN K ELSE [K EXCEPT ![c] = Append(@, k)]

\* remove_keyword: the row at position index (1-based) of ORDER BY id
remove_keyword(K, c, index) ==
    IF index < 1 \/ index > Len(K[c]) THEN K
    ELSE [K EXCEPT ![c] = SubSeq(@, 1, index - 1) \o SubSeq(@, index + 1, Len(@))]

AddKeyword(c, k) ==
    /\ k \notin RangeOf(keywords[c])
    /\ Command(c)
    /\ keywords' = add_keyword(keywords, c, k)
    /\ UNCHANGED <<chats, feeds, seen, kvLast, rssVars, pollVars, worldVars, logVars,
                   cycle, delivered, redelivered, everAdded, blocked>>

RemoveKeyword(c, index) ==
    /\ index \in 1..Len(keywords[c])
    /\ Command(c)
    /\ keywords' = remove_keyword(keywords, c, index)
    /\ UNCHANGED <<chats, feeds, seen, kvLast, rssVars, pollVars, worldVars, logVars,
                   cycle, delivered, redelivered, everAdded, blocked>>

\* ---------------------------------------------------------------- runs
FirstId == 5
InitUpstream == [u \in Urls |-> IF u = "f1" THEN <<2, 1>>
                                ELSE IF u = "a1" THEN <<3>> ELSE <<>>]

\* the subscriptions the chats hold when the bot starts
Subs(f1, k1, f2, k2) ==
    [feeds |-> [c \in Chats |-> IF c = 1 THEN f1 ELSE f2],
     keywords |-> [c \in Chats |-> IF c = 1 THEN k1 ELSE k2]]
InitSubs == <<Subs({"f1"}, <<"k1">>, {"f1"}, <<>>),
             Subs({"a1"}, <<"k1">>, {}, <<>>),
             Subs({"gold"}, <<>>, {}, <<>>)>>

NoResult == [tpl |-> "pending", searched |-> FALSE, fails |-> 0]
NoCall == [inWindow |-> FALSE, ext |-> 0, empty |-> FALSE]
NoOp == [op |-> "none", c |-> 0, u |-> "", ret |-> FALSE, had |-> {}]
NoEntry == [id |-> "", link |-> "", title |-> "", published_parsed |-> <<>>]

\* the item ids a seen row can hold
ItemIds == 1..(FirstId + MaxEvents) \cup {NewsKey}

\* The tables as rows: chats(chat_id, lang), feeds(chat_id, url),
\* seen(chat_id, feed_url, item_id).  L is the lang column.
RowsOf(S, L) ==
    [chats |-> {<<c, L[c]>> : c \in S.chats},
     feeds |-> {r \in Chats \X Urls : r[2] \in S.feeds[r[1]]},
     seen |-> {r \in Chats \X Urls \X ItemIds : r[3] \in S.seen[r[1]][r[2]]}]

\* What a store opened on rows R answers: iter_chats, get_chat(c)["lang"]
\* ("": no row), list_feeds(c), get_seen(c, u).
LoadOf(R) ==
    [chats |-> {r[1] : r \in R.chats},
     lang |-> [c \in Chats |-> IF \E r \in R.chats : r[1] = c
                               THEN (CHOOSE r \in R.chats : r[1] = c)[2] ELSE ""],
     feeds |-> [c \in Chats |-> {u \in Urls : <<c, u>> \in R.feeds}],
     seen |-> [c \in Chats |-> [u \in Urls |-> {e \in ItemIds : <<c, u, e>> \in R.seen}]]]

\* the same answers from the store that is open
ViewOf(S, L) ==
    [chats |-> S.chats,
     lang |-> [c \in Chats |-> IF c \in S.chats THEN L[c] ELSE ""],
     feeds |-> S.feeds,
     seen |-> S.seen]

\* when the bot starts, the file holds what the store reads
InitDisk == disk = RowsOf(Db, lang)

\* the runs of single operations that are not followed
NoThr == [now |-> 0, cache |-> <<>>, log |-> <<>>, n |-> 0, done |-> {}]
Init_thr == thr = NoThr
NoGm == [pos |-> 1, draws |-> <<>>, calls |-> <<>>, last |-> <<>>]
Init_gm == gm = NoGm
NoRq == <<>>
Init_rq == rq = NoRq
NoKeywordEvents == {}
Init_keyword_events == keyword_events = NoKeywordEvents
NoPrv == [listed |-> <<>>, before |-> {}, seen |-> {}, out |-> <<>>, ran |-> FALSE]
Init_prv == prv = NoPrv
NoPay == [status |-> "pending", ref_id |-> "", days |-> 0, sub |-> 0, now |-> 0, first |-> <<>>, n |-> 0]
Init_pay == pay = NoPay
InitIn2 ==
    /\ Init_thr
    /\ Init_gm
    /\ Init_rq
    /\ Init_keyword_events
    /\ Init_prv
    /\ Init_pay
Init_thr_rest ==
    /\ Init_gm
    /\ Init_rq
    /\ Init_keyword_events
    /\ Init_prv
    /\ Init_pay
Init_gm_rest ==
    /\ Init_thr
    /\ Init_rq
    /\ Init_keyword_events
    /\ Init_prv
    /\ Init_pay
Init_rq_rest ==
    /\ Init_thr
    /\ Init_gm
    /\ Init_keyword_events
    /\ Init_prv
    /\ Init_pay
Init_keyword_events_rest ==
    /\ Init_thr
    /\ Init_gm
    /\ Init_rq
    /\ Init_prv
    /\ Init_pay
Init_prv_rest ==
    /\ Init_thr
    /\ Init_gm
    /\ Init_rq
    /\ Init_keyword_events
    /\ Init_pay
Init_pay_rest ==
    /\ Init_thr
    /\ Init_gm
    /\ Init_rq
    /\ Init_keyword_events
    /\ Init_prv
InitCommit0 ==
    /\ commitOk = TRUE
    /\ nOps = 0
InitAux3 ==
    /\ InitCommit0
    /\ InitIn2

\* no call of i18n.t is followed
NoOut == <<"pending">>
Unloaded == [loaded |-> FALSE, has |-> FALSE, text |-> <<>>]
NoTr == [locales |-> [l \in {"fa", "en", "de"} |-> Unloaded], lang |-> "", page |-> "",
         out |-> NoOut]
InitTr0 == trCall = NoTr
\* no call of Summarizer.summarize is followed
NoSm == [title |-> 0, text |-> 0, key |-> "", lang |-> "fa", outs |-> <<>>]
InitSm0 == smCall = NoSm
\* no cursor run is followed
NoRr == [n |-> 0, kw |-> FALSE, adminPos |-> 0, cursor |-> 0, hist |-> <<>>]
InitRr0 == rr = NoRr
\* no fetch run is followed
NoWorker == [pc |-> "done", lw |-> 0, lf |-> 0]
NoFl == [phase |-> "done", n |-> 0, kw |-> FALSE, w |-> 0, f |-> 0,
         tasks |-> <<NoWorker, NoWorker, NoWorker>>]
InitFl0 == fl = NoFl
\* no language run is followed
NoLangCall == [pc |-> "none", prompt |-> ""]
NoLg == [store |-> [c \in Chats |-> "fa"], prompt |-> "fa", queue |-> <<>>, cur |-> 0,
         chat_lang |-> "", call |-> NoLangCall, outs |-> <<>>, nSet |-> 0]
InitLg0 == lgRun = NoLg
\* no call of the seen helpers is followed
NoSafeOp == [op |-> "none", c |-> 0, u |-> "", X |-> {}, lookupOk |-> TRUE, ioOk |-> TRUE,
             owned |-> FALSE, seen0 |-> {}, cache0 |-> {}, seen1 |-> {}, cache1 |-> {},
             feeds1 |-> {}, ret |-> {}]
InitSafe0 == safeOp = NoSafeOp
InitInputs == InitTr0 /\ InitSm0 /\ InitRr0 /\ InitFl0 /\ InitLg0 /\ InitSafe0

\* Summarizer.__init__ (lines 290-294), and no entry in the pipeline
InitAux2 ==
    /\ pipe = [in |-> <<FALSE, FALSE, FALSE, FALSE, FALSE, FALSE, FALSE>>, out |-> NoResult]
    /\ fail_count = 0
    /\ cooldown_until = 0
    /\ streak = 0
    /\ cbOpen = FALSE
    /\ lastCall = NoCall
    /\ nCalls = 0
    /\ lastOp = NoOp
    /\ entry = NoEntry
    /\ ids = <<>>

InitAux ==
    /\ InitAux2
    /\ InitAux3
    /\ InitInputs

InitCommon ==
    /\ chats = Chats
    /\ seen = [c \in Chats |-> [u \in Urls |-> {}]]
    /\ kvLast = [c \in Chats |-> {}]
    /\ cursor = [c \in Chats |-> 0]
    /\ fallbackCache = [c \in Chats |-> {}]
    /\ kwKnown = {}
    /\ kwMatches = [c \in Chats |-> NoMatches]
    /\ kwSeenGlobal = [c \in Chats |-> {}]
    /\ adminSeenCache = [c \in Chats |-> [u \in Urls |-> {}]]
    /\ statsSent = 0
    /\ statsSkipped = 0
    /\ phase = "idle"
    /\ queue = <<>>
    /\ cur = 0
    /\ batch = <<>>
    /\ pollKw = <<>>
    /\ tasks = NoTasks
    /\ flushQ = <<>>
    /\ cycle = 0
    /\ nEvt = 0
    /\ delivered = [c \in Chats |-> {}]
    /\ redelivered = FALSE
    /\ actor = 0
    /\ entryLog = NoLog
    /\ digestLog = <<>>
    /\ provLog = {}
    /\ srcLog = NoSteps
    /\ blocked = {}
    /\ runNow = [c \in Chats |-> NoRun]
    /\ runPrev = [c \in Chats |-> NoRun]
    /\ idem = FALSE
    /\ lang = [c \in Chats |-> IF c = 1 THEN "fa" ELSE "en"]

\* The bot starts with the subscriptions its chats made earlier and nothing
\* delivered yet.
Init ==
    /\ InitCommon
    /\ InitAux
    /\ \E i \in 1..Len(InitSubs) :
        /\ feeds = InitSubs[i].feeds
        /\ keywords = InitSubs[i].keywords
    /\ everAdded = feeds
    /\ upstream = InitUpstream
    /\ nextId = FirstId
    /\ InitDisk

PollStep ==
    \/ StartPoll
    \/ SetupChat
    \/ Dispatch
    \/ AdminScan
    \/ \E u \in Urls : ProcessEntry(u)
    \/ \E u \in Urls : ProviderStep(u)
    \/ Join
    \/ FlushChunk
    \/ FinishChat
    \/ EndPoll
    \/ StoreFault

Next ==
    \/ PollStep
    \/ \E u \in Urls : Publish(u)
    \/ \E c \in Chats, e \in 1..(FirstId + MaxEvents) : ThrottleElapse(c, e)
    \/ \E c \in Chats, u \in Urls : AddFeed(c, u)
    \/ \E c \in Chats, u \in Urls : RemoveFeed(c, u)
    \/ \E c \in Chats, k \in KeywordPool : AddKeyword(c, k)
    \/ \E c \in Chats, i \in 1..Len(KeywordOrder) : RemoveKeyword(c, i)

Spec == Init /\ [][Next]_vars


\* ------------------------------------------- one subscription, one feed
\* Chat 1 holds f1, which lists three entries, newest first; it may have a
\* keyword.  Only poll cycles run.
InitE2E ==
    /\ InitCommon
    /\ InitAux
    /\ feeds = [c \in Chats |-> IF c = 1 THEN {"f1"} ELSE {}]
    /\ keywords \in {[c \in Chats |-> <<>>], [c \in Chats |-> IF c = 1 THEN <<"k1">> ELSE <<>>]}
    /\ everAdded = feeds
    /\ upstream = [u \in Urls |-> IF u = "f1" THEN <<3, 2, 1>> ELSE <<>>]
    /\ nextId = FirstId
    /\ InitDisk

NextE2E ==
    \/ StartPoll
    \/ SetupChat
    \/ Dispatch
    \/ AdminScan
    \/ \E u \in Urls : ProcessEntry(u)
    \/ Join
    \/ FlushChunk
    \/ FinishChat
    \/ EndPoll

SpecE2E == InitE2E /\ [][NextE2E]_vars

\* ------------------------------------------------------- digest flush
\* The i-th match of the keyword: the first ten come from f1, the others
\* from a1 (a fetch yields at most rss_max_items_per_feed entries).
MatchItem(i) == <<2 * i - 1, IF i <= rss_max_items_per_feed THEN "f1" ELSE "a1">>

\* Chat 1, which holds a1 and f1 and the keyword, has finished the tasks of
\* its cycle with n matches accumulated; the matches the admin scan collected
\* (here those past the twentieth) are already in the store.
InitChunk ==
    /\ InitAux
    /\ \E n \in 0..MaxMatches :
        /\ kwMatches = [c \in Chats |-> IF c = 1
                            THEN [k \in KeywordPool |-> [i \in 1..n |-> MatchItem(i)]]
                            ELSE NoMatches]
        /\ kwSeenGlobal = [c \in Chats |-> IF c = 1 THEN {2 * i - 1 : i \in 1..n} ELSE {}]
        /\ seen = [c \in Chats |-> [u \in Urls |->
                      IF c = 1 /\ u = "a1"
                      THEN {2 * i - 1 : i \in (2 * rss_max_items_per_feed + 1)..n} ELSE {}]]
    /\ chats = Chats
    /\ feeds = [c \in Chats |-> IF c = 1 THEN {"a1", "f1"} ELSE {}]
    /\ keywords = [c \in Chats |-> IF c = 1 THEN <<"k1">> ELSE <<>>]
    /\ kvLast = [c \in Chats |-> {}]
    /\ cursor = [c \in Chats |-> 0]
    /\ fallbackCache = [c \in Chats |-> {}]
    /\ kwKnown = {1}
    /\ adminSeenCache = [c \in Chats |-> [u \in Urls |-> {}]]
    /\ statsSent = 0
    /\ statsSkipped = 0
    /\ phase = "join"
    /\ queue = <<>>
    /\ cur = 1
    /\ batch = <<"a1", "f1">>
    /\ pollKw = <<"k1">>
    /\ tasks = NoTasks
    /\ flushQ = <<>>
    /\ upstream = InitUpstream
    /\ nextId = FirstId
    /\ cycle = 1
    /\ nEvt = 0
    /\ delivered = [c \in Chats |-> {}]
    /\ redelivered = FALSE
    /\ everAdded = feeds
    /\ actor = 1
    /\ entryLog = NoLog
    /\ digestLog = <<>>
    /\ provLog = {}
    /\ srcLog = NoSteps
    /\ blocked = {}
    /\ runNow = [c \in Chats |-> NoRun]
    /\ runPrev = [c \in Chats |-> NoRun]
    /\ idem = FALSE
    /\ lang = [c \in Chats |-> IF c = 1 THEN "fa" ELSE "en"]
    /\ InitDisk

NextChunk ==
    \/ Join
    \/ FlushChunk
    \/ FinishChat

SpecChunk == InitChunk /\ [][NextChunk]_vars

\* ------------------------------------------------- the delivery stages
InitPipe ==
    /\ InitCommon
    /\ feeds = InitSubs[1].feeds
    /\ keywords = InitSubs[1].keywords
    /\ everAdded = feeds
    /\ upstream = InitUpstream
    /\ nextId = FirstId
    /\ InitDisk
    /\ fail_count = 0
    /\ cooldown_until = 0
    /\ streak = 0
    /\ cbOpen = FALSE
    /\ lastCall = NoCall
    /\ nCalls = 0
    /\ lastOp = NoOp
    /\ entry = NoEntry
    /\ ids = <<>>
    /\ InitAux3
    /\ InitInputs
    /\ \E in \in [1..7 -> BOOLEAN] : pipe = [in |-> in, out |-> NoResult]

\* one entry is taken through the stages
RunPipeline ==
    /\ pipe.out = NoResult
    /\ pipe' = [pipe EXCEPT !.out = entry_pipeline(pipe.in[1], pipe.in[2], pipe.in[3],
                                     pipe.in[4], pipe.in[5], pipe.in[6], pipe.in[7])]
    /\ UNCHANGED <<mainVars, sumVars, lastOp, idVars, aux3Vars>>

SpecPipe == InitPipe /\ [][RunPipeline]_vars

\* ----------------------------------------------------------- Summarizer
\* prompt_sequence: strict, softer, unstructured, and for a short text also
\* just_tldr and just_bullets; prompt_sequence[:max_attempts]
PromptCount(short) == Min(IF short THEN 5 ELSE 3, summary_max_attempts)

\* summarize_full (lines 296-485).  ready: the text is not empty and the
\* model can be built; k: the prompt whose answer is the first to parse
\* (0: none, PromptCount + 1: the extra just_tldr call made when none of the
\* sequence did).  Neither _fail_count nor _cooldown_until is read or written.
SummarizeFull ==
    /\ nCalls < MaxCalls
    /\ nCalls' = nCalls + 1
    /\ \E ready, short \in BOOLEAN :
       \E k \in 0..(PromptCount(short) + 1) :
        LET ext == IF ~ready THEN 0
                   ELSE IF k = 0 THEN PromptCount(short) + 1 ELSE k
            failed == ready /\ k = 0
            s1 == IF failed THEN Min(streak + 1, summary_cb_errors)
                  ELSE IF ready THEN 0 ELSE streak
        IN /\ lastCall' = [inWindow |-> cbOpen, ext |-> ext, empty |-> (~ready \/ k = 0)]
           /\ streak' = s1
           /\ cbOpen' = IF s1 = summary_cb_errors THEN TRUE ELSE cbOpen
    /\ UNCHANGED <<fail_count, cooldown_until, pipe, lastOp, idVars, aux3Vars, mainVars>>

\* summary_cb_cooldown_sec have passed since the window opened
CooldownElapses ==
    /\ cbOpen
    /\ cbOpen' = FALSE
    /\ streak' = 0
    /\ UNCHANGED <<fail_count, cooldown_until, lastCall, nCalls, pipe, lastOp, idVars,
                   aux3Vars, mainVars>>

\* a Summarizer just constructed; the rest of the bot is idle
InitSum ==
    /\ InitCommon
    /\ InitAux
    /\ feeds = InitSubs[1].feeds
    /\ keywords = InitSubs[1].keywords
    /\ everAdded = feeds
    /\ upstream = InitUpstream
    /\ nextId = FirstId
    /\ InitDisk

NextSum ==
    \/ SummarizeFull
    \/ CooldownElapses

SpecSum == InitSum /\ [][NextSum]_vars

\* ------------------------------------------------ the store, call by call
\* The operations of SQLiteStateStore called in any order with any arguments.
\* lastOp records the call: its name, chat and url, the value returned, and
\* for remove_feed the seen-set the pair had before the call.
StoreOp(name, c, u, ret, had) == [op |-> name, c |-> c, u |-> u, ret |-> ret, had |-> had]
SeenValues == {{}, {1}}
storeFrame == <<cursor, fallbackCache, kwKnown, kwMatches, kwSeenGlobal, statsSent,
                statsSkipped, pollVars, worldVars, logVars, runVars, bookVars,
                pipe, sumVars, idVars, langVars, aux3Vars>>

StoreAddFeed(c, u) ==
    /\ WriteDb(add_feed(Db, c, u))
    /\ lastOp' = StoreOp("add_feed", c, u, add_feed_returns(Db, c, u), {})
    /\ UNCHANGED <<keywords, storeFrame>>

StoreRemoveFeed(c, u) ==
    /\ WriteDb(remove_feed(Db, c, u))
    /\ lastOp' = StoreOp("remove_feed", c, u, remove_feed_returns(Db, c, u),
                         get_seen(Db, c, u))
    /\ UNCHANGED <<keywords, storeFrame>>

StoreSetSeen(c, u, X) ==
    /\ WriteDb(set_seen(Db, c, u, X))
    /\ lastOp' = StoreOp("set_seen", c, u, TRUE, {})
    /\ UNCHANGED <<keywords, storeFrame>>

StoreAddKeyword(c, k) ==
    /\ keywords' = add_keyword(keywords, c, k)
    /\ lastOp' = StoreOp("add_keyword", c, "", TRUE, {})
    /\ UNCHANGED <<chats, feeds, seen, kvLast, adminSeenCache, storeFrame>>

StoreRemoveKeyword(c, index) ==
    /\ keywords' = remove_keyword(keywords, c, index)
    /\ lastOp' = StoreOp("remove_keyword", c, "", index \in 1..Len(keywords[c]), {})
    /\ UNCHANGED <<chats, feeds, seen, kvLast, adminSeenCache, storeFrame>>

StoreDropChat(c) ==
    /\ WriteDb(drop_chat(Db, c))
    /\ lastOp' = StoreOp("drop_chat", c, "", drop_chat_returns(Db, c), {})
    /\ UNCHANGED <<keywords, storeFrame>>

StoreDeleteChat(c) ==
    /\ WriteDb(delete_chat(Db, c))
    /\ keywords' = delete_chat_keywords(keywords, c)
    /\ lastOp' = StoreOp("delete_chat", c, "", TRUE, {})
    /\ UNCHANGED storeFrame

\* the store as the bot's first start leaves it: both chats registered, f1
\* subscribed by both, one keyword
InitStore ==
    /\ InitCommon
    /\ InitAux
    /\ feeds = InitSubs[1].feeds
    /\ keywords = InitSubs[1].keywords
    /\ everAdded = feeds
    /\ upstream = InitUpstream
    /\ nextId = FirstId
    /\ InitDisk

NextStore ==
    \/ \E c \in Chats, u \in Urls : StoreAddFeed(c, u)
    \/ \E c \in Chats, u \in Urls : StoreRemoveFeed(c, u)
    \/ \E c \in Chats, u \in Urls, X \in SeenValues : StoreSetSeen(c, u, X)
    \/ \E c \in Chats, k \in KeywordPool : StoreAddKeyword(c, k)
    \/ \E c \in Chats, i \in 0..Len(KeywordOrder) : StoreRemoveKeyword(c, i)
    \/ \E c \in Chats : StoreDropChat(c)
    \/ \E c \in Chats : StoreDeleteChat(c)

SpecStore == InitStore /\ [][NextStore]_vars

\* ------------------------------------------------------- entry identity
\* number of fetches of the feed that are followed
MaxFetches == 2

\* what a feed can publish as one entry: a missing attribute is "" (or <<>>
\* for the parsed time, which is <<hour, minute>> when present)
Entries ==
    [id : {"", "guid-1"}, link : {"", "http://a/1"}, title : {"", "t1"},
     published_parsed : {<<>>, <<0, 5>>, <<1, 0>>}]

\* time.mktime: broken-down time to a number (minutes here)
mktime(t) == t[1] * 60 + t[2]

\* the service object as entry_id can see it: it changes from fetch to fetch
Self == [fetched |-> Len(ids)]

\* Variant that stamps the fallback with the fetch instead of the
\* published time.
entry_id_fetch_stamp(self, e) ==
    IF e.id # "" THEN <<e.id>>
    ELSE IF e.link # "" THEN <<e.link>>
    ELSE <<e.title, "_", self.fetched>>

\* RSSService.entry_id; the returned string is written as the list of its parts
entry_id(self, e) ==
    IF e.id # "" THEN <<e.id>>
    ELSE IF e.link # "" THEN <<e.link>>
    ELSE <<e.title, "_">> \o (IF e.published_parsed # <<>>
                              THEN <<mktime(e.published_parsed)>> ELSE <<>>)

\* the feed changes what it publishes
PublishEntry(e) ==
    /\ e # entry
    /\ entry' = e
    /\ UNCHANGED <<mainVars, pipe, sumVars, lastOp, ids, aux3Vars>>

\* one fetch: the entry is parsed and its id derived
FetchEntry ==
    /\ Len(ids) < MaxFetches
    /\ ids' = Append(ids, [e |-> entry, id |-> entry_id(Self, entry)])
    /\ UNCHANGED <<mainVars, pipe, sumVars, lastOp, entry, aux3Vars>>

InitId ==
    /\ InitCommon
    /\ InitAux
    /\ feeds = InitSubs[1].feeds
    /\ keywords = InitSubs[1].keywords
    /\ everAdded = feeds
    /\ upstream = InitUpstream
    /\ nextId = FirstId
    /\ InitDisk

NextId ==
    \/ \E e \in Entries : PublishEntry(e)
    \/ FetchEntry

SpecId == InitId /\ [][NextId]_vars

\* ---------------------------------------------------------- persistence
\* store calls followed in one run
MaxOps == 3

\* set_chat_lang: the code that is stored, given the loaded languages
lang_to_store(code, loaded) ==
    IF norm_lang(code) \in loaded THEN norm_lang(code)
    ELSE IF DEFAULT_LANG \in loaded THEN DEFAULT_LANG
    ELSE IF "en" \in loaded THEN "en"
    ELSE norm_lang(code)

\* Variant in which nothing reaches the file.
commit_lost(D, R, ok) == D

\* _locked_cursor.__exit__ (and StateStore.save): the rows R of the open
\* store replace the rows D of the file if the commit succeeds; if it raises,
\* the exception is swallowed and the file keeps D
commit(D, R, ok) == IF ok THEN R ELSE D

persistFrame == <<cursor, fallbackCache, kwKnown, kwMatches, kwSeenGlobal, statsSent,
                  statsSkipped, pollVars, worldVars, logVars, runVars, bookVars,
                  pipe, sumVars, idVars>>

\* one store call and the commit that ends it
Persisted(S, L, ok) ==
    /\ nOps < MaxOps
    /\ nOps' = nOps + 1
    /\ WriteDb(S)
    /\ lang' = L
    /\ disk' = commit(disk, RowsOf(S, L), ok)
    /\ commitOk' = ok
    /\ UNCHANGED <<keywords, persistFrame, inputVars, in2Vars>>

PersistAddFeed(c, u) ==
    /\ \E ok \in BOOLEAN : Persisted(add_feed(Db, c, u), lang, ok)
    /\ lastOp' = StoreOp("add_feed", c, u, add_feed_returns(Db, c, u), {})

PersistRemoveFeed(c, u) ==
    /\ \E ok \in BOOLEAN : Persisted(remove_feed(Db, c, u), lang, ok)
    /\ lastOp' = StoreOp("remove_feed", c, u, remove_feed_returns(Db, c, u),
                         get_seen(Db, c, u))

PersistSetSeen(c, u, X) ==
    /\ \E ok \in BOOLEAN : Persisted(set_seen(Db, c, u, X), lang, ok)
    /\ lastOp' = StoreOp("set_seen", c, u, TRUE, {})

\* i18n.set_chat_lang -> store.set_chat(chat_id, {..., "lang": code})
PersistSetLang(c, code) ==
    /\ \E ok \in BOOLEAN :
          Persisted([Db EXCEPT !.chats = @ \cup {c}],
                    [lang EXCEPT ![c] = lang_to_store(code, LoadedLangs)], ok)
    /\ lastOp' = StoreOp("set_chat_lang", c, "", TRUE, {})

InitPersist ==
    /\ InitCommon
    /\ InitAux
    /\ feeds = InitSubs[1].feeds
    /\ keywords = InitSubs[1].keywords
    /\ everAdded = feeds
    /\ upstream = InitUpstream
    /\ nextId = FirstId
    /\ InitDisk

NextPersist ==
    \/ \E c \in Chats, u \in Urls : PersistAddFeed(c, u)
    \/ \E c \in Chats, u \in Urls : PersistRemoveFeed(c, u)
    \/ \E c \in Chats, u \in Urls, X \in SeenValues : PersistSetSeen(c, u, X)
    \/ \E c \in Chats, code \in LangCodes : PersistSetLang(c, code)

SpecPersist == InitPersist /\ [][NextPersist]_vars

\* ------------------------------------------------------------- i18n.t
\* The one key looked up, the languages a messages.<lang>.json may exist for
\* and the text each holds for the key; "$page" is a placeholder.
TrKey == "list.page"
TrLangs == {"fa", "en", "de"}
TextOf(l) == <<l, ":", "$page">>

\* A loaded messages file: has the key or not, with an empty or a real text.
LocaleFiles(l) ==
    {Unloaded,
     [loaded |-> TRUE, has |-> FALSE, text |-> <<>>],
     [loaded |-> TRUE, has |-> TRUE, text |-> <<>>],
     [loaded |-> TRUE, has |-> TRUE, text |-> TextOf(l)]}

\* the dict of a loaded language, as "not in layers" compares it
DictOf(f) == [has |-> f.has, text |-> f.text]

\* d.get(key) is neither None nor ""
Truthy(d) == d.has /\ d.text # <<>>

\* Variant that leaves the default language out of the chain.
layers_no_default(locales, lg) ==
    LET l1 == IF locales[lg].loaded THEN <<DictOf(locales[lg])>> ELSE <<>>
    IN IF locales["en"].loaded /\ DictOf(locales["en"]) \notin RangeOf(l1)
       THEN Append(l1, DictOf(locales["en"])) ELSE l1

\* t, lines 108-114: the dicts that are searched, in order
layers(locales, lg) ==
    LET l1 == IF locales[lg].loaded THEN <<DictOf(locales[lg])>> ELSE <<>>
        l2 == IF locales[DEFAULT_LANG].loaded
                 /\ DictOf(locales[DEFAULT_LANG]) \notin RangeOf(l1)
              THEN Append(l1, DictOf(locales[DEFAULT_LANG])) ELSE l1
    IN IF locales["en"].loaded /\ DictOf(locales["en"]) \notin RangeOf(l2)
       THEN Append(l2, DictOf(locales["en"])) ELSE l2

\* Template(s).safe_substitute(page=...): a placeholder that is passed is
\* replaced, one that is not passed stays
safe_substitute(s, page) ==
    [i \in 1..Len(s) |-> IF s[i] = "$page" /\ page # "" THEN page ELSE s[i]]

\* t(key, lang, page=page) with _LOCALES = locales
t(locales, key, lg, page) ==
    LET ls == layers(locales, norm_lang(lg))
        hit == {i \in 1..Len(ls) : Truthy(ls[i])}
        s == IF hit = {} THEN <<key>>
             ELSE ls[CHOOSE i \in hit : \A j \in hit : i <= j].text
    IN safe_substitute(s, page)

\* _lazy_ensure_loaded: with nothing loaded, load_locales(None) reads the
\* default directory, which may hold any files
LoadedBy(locales) ==
    IF \E l \in TrLangs : locales[l].loaded THEN {locales}
    ELSE {f \in [TrLangs -> UNION {LocaleFiles(l) : l \in TrLangs}] :
             \A l \in TrLangs : f[l] \in LocaleFiles(l)}

\* t is called
Translate ==
    /\ trCall.out = NoOut
    /\ \E f \in LoadedBy(trCall.locales) :
          trCall' = [trCall EXCEPT !.locales = f,
                                   !.out = t(f, TrKey, trCall.lang, trCall.page)]
    /\ UNCHANGED <<mainVars, pipe, sumVars, lastOp, idVars, persistVars, smCall, rr, fl, lgRun, safeOp,
                 in2Vars>>

InitI18n ==
    /\ InitCommon
    /\ InitAux2
    /\ InitAux3
    /\ feeds = InitSubs[1].feeds
    /\ keywords = InitSubs[1].keywords
    /\ everAdded = feeds
    /\ upstream = InitUpstream
    /\ nextId = FirstId
    /\ InitDisk
    /\ InitSm0
    /\ InitRr0
    /\ InitFl0
    /\ InitLg0
    /\ InitSafe0
    /\ \E f \in [TrLangs -> UNION {LocaleFiles(l) : l \in TrLangs}],
          lg \in LangCodes, page \in {"", "1"} :
          /\ \A l \in TrLangs : f[l] \in LocaleFiles(l)
          /\ trCall = [locales |-> f, lang |-> lg, page |-> page, out |-> NoOut]

SpecI18n == InitI18n /\ [][Translate]_vars

\* ------------------------------------------------- Summarizer.summarize
\* calls of summarize that are followed
MaxSummaries == 2
summary_lite_min_len == 120     \* settings.summary_lite_min_len

\* what an instance of Summarizer answers to attribute lookup: the fields
\* __init__ sets and the methods of the class
SummarizerAttrs ==
    {"api_key", "prompt_lang", "_fail_count", "_cooldown_until",
     "summarize_full", "summarize"}

\* len((text if len(text) > summary_lite_min_len else f"{title}\n{text}").strip())
\* for a title and a text without surrounding blanks, given by their lengths
base_len(title, text) ==
    IF text > summary_lite_min_len THEN text
    ELSE IF title = 0 /\ text = 0 THEN 0
    ELSE IF title = 0 \/ text = 0 THEN title + text
    ELSE title + 1 + text

\* summarize for a Summarizer with the given api_key and prompt_lang: an
\* empty base returns ("", []); otherwise self._call_ai is looked up
summarize(title, text, key, pl) ==
    IF base_len(title, text) = 0
    THEN [exc |-> "", tldr |-> 0, lang |-> pl]
    ELSE IF "_call_ai" \notin SummarizerAttrs
    THEN [exc |-> "AttributeError", tldr |-> 0, lang |-> pl]
    ELSE [exc |-> "", tldr |-> base_len(title, text), lang |-> pl]

\* sm.summarize(title, text)
Summarize ==
    /\ Len(smCall.outs) < MaxSummaries
    /\ smCall' = [smCall EXCEPT !.outs = Append(@, summarize(smCall.title, smCall.text,
                                                             smCall.key, smCall.lang))]
    /\ UNCHANGED <<mainVars, pipe, sumVars, lastOp, idVars, persistVars, trCall, rr, fl, lgRun, safeOp,
                 in2Vars>>

\* sm.prompt_lang = code
SetPromptLang(code) ==
    /\ code # smCall.lang
    /\ smCall' = [smCall EXCEPT !.lang = code]
    /\ UNCHANGED <<mainVars, pipe, sumVars, lastOp, idVars, persistVars, trCall, rr, fl, lgRun, safeOp,
                 in2Vars>>

InitSummarize ==
    /\ InitCommon
    /\ InitAux2
    /\ InitAux3
    /\ feeds = InitSubs[1].feeds
    /\ keywords = InitSubs[1].keywords
    /\ everAdded = feeds
    /\ upstream = InitUpstream
    /\ nextId = FirstId
    /\ InitDisk
    /\ InitTr0
    /\ InitRr0
    /\ InitFl0
    /\ InitLg0
    /\ InitSafe0
    /\ \E title \in {0, 5}, text \in {0, 50, 200}, key \in {"", "key"} :
          smCall = [title |-> title, text |-> text, key |-> key, lang |-> "fa",
                    outs |-> <<>>]

NextSummarize ==
    \/ Summarize
    \/ \E code \in {"fa", "en"} : SetPromptLang(code)

SpecSummarize == InitSummarize /\ [][NextSummarize]_vars

\* ------------------------------------------------- the batch cursor
\* One chat that holds n feeds, sorted; feed i is the i-th of sorted(user_feeds).
MaxSources == 41    \* feeds the chat holds
MaxRounds == 5      \* poll cycles followed

\* values _cursor_per_chat[cid] can hold when the feeds last changed
CursorValues == {0, rss_batch_size, 2 * rss_batch_size}

\* start = cursor; if start >= len(user_feeds): start = 0
batch_start(c, len) == IF c >= len THEN 0 ELSE c

\* Variant whose batch runs to the end of the list.
batch_end_all(start, len) == len

\* end = min(len(user_feeds), start + batch_size)
batch_end(start, len) == Min(len, start + rss_batch_size)

\* Variant that always starts over.
next_index_zero(len, end) == 0

\* next_index = end if end < len(user_feeds) else 0
next_index(len, end) == IF end < len THEN end ELSE 0

\* what a cycle did for the chat: whether the batch was selected, the batch,
\* the held feeds fetched, the held feeds given to _process_feed
NoCycle == [sel |-> FALSE, batch |-> {}, fetched |-> {}, processed |-> {}]

\* lines 892-965 of one cycle.  The batch is user_feeds[start:end]; with
\* keywords every url of ADMIN_FEEDS is fetched and scanned too.  late: the
\* list_feeds of line 931 raises, after the batch was fetched.
SelectBatch ==
    /\ Len(rr.hist) < MaxRounds
    /\ \E late \in BOOLEAN :
        LET start == batch_start(rr.cursor, rr.n)
            end == batch_end(start, rr.n)
            b == (start + 1)..end
            adm == IF rr.kw /\ rr.adminPos # 0 /\ ~late THEN {rr.adminPos} ELSE {}
        IN rr' = [rr EXCEPT !.cursor = next_index(rr.n, end),
                            !.hist = Append(@, [sel |-> TRUE, batch |-> b,
                                                fetched |-> b \cup adm,
                                                processed |-> IF late THEN {} ELSE b])]
    /\ UNCHANGED <<mainVars, pipe, sumVars, lastOp, idVars, persistVars, trCall, smCall, fl, lgRun, safeOp,
                 in2Vars>>

\* a cycle in which list_feeds or list_keywords (lines 892-893) raises for
\* this chat or an earlier one: the chat's batch is not selected
AbortCycle ==
    /\ Len(rr.hist) < MaxRounds
    /\ rr' = [rr EXCEPT !.hist = Append(@, NoCycle)]
    /\ UNCHANGED <<mainVars, pipe, sumVars, lastOp, idVars, persistVars, trCall, smCall, fl, lgRun, safeOp,
                 in2Vars>>

InitCursor ==
    /\ InitCommon
    /\ InitAux2
    /\ InitAux3
    /\ feeds = InitSubs[1].feeds
    /\ keywords = InitSubs[1].keywords
    /\ everAdded = feeds
    /\ upstream = InitUpstream
    /\ nextId = FirstId
    /\ InitDisk
    /\ InitTr0
    /\ InitSm0
    /\ InitFl0
    /\ InitLg0
    /\ InitSafe0
    /\ \E n \in 1..MaxSources, kw \in BOOLEAN, c \in CursorValues :
        \E a \in {0, 1, n} :
          rr = [n |-> n, kw |-> kw, adminPos |-> a, cursor |-> c, hist |-> <<>>]

NextCursor ==
    \/ SelectBatch
    \/ AbortCycle

SpecCursor == InitCursor /\ [][NextCursor]_vars

\* ceil(n / batch_size)
RoundLen == (rr.n + rss_batch_size - 1) \div rss_batch_size

\* in every RoundLen consecutive cycles of h, each feed is in exactly one batch
ExactlyOnce(h) ==
    \A k \in 1..(Len(h) - RoundLen + 1), i \in 1..rr.n :
        Cardinality({j \in k..(k + RoundLen - 1) : i \in h[j].batch}) = 1

\* the cycles in which the chat's batch was selected
Selected(h) == SelectSeq(h, LAMBDA r : r.sel)

\* ------------------------------------------------- fetches in flight
\* One chat's iteration of poll_once: the batch is fetched under the poll
\* semaphore, then the _process_feed tasks run while the admin candidates are
\* fetched under the same semaphore.
MaxBatch == 7       \* feeds in the batch
rss_fetch_concurrency == 6          \* getattr(settings, "rss_fetch_concurrency", 6)
fetcher_concurrency == 4            \* getattr(settings, "fetcher_concurrency", 4)
search_fallback_max_results == 3    \* getattr(settings, "search_fallback_max_results", 3)
Workers == 1..3

\* the fetch frame: everything but fl
flFrame == <<mainVars, pipe, sumVars, lastOp, idVars, persistVars, trCall, smCall, rr, lgRun,
            safeOp, in2Vars>>

\* _fetch_with_sem: "async with sem" is entered, _fetch_feed is in flight
Acquire ==
    /\ fl.phase \in {"batch", "proc"}
    /\ fl.w > 0
    /\ fl.f < rss_fetch_concurrency
    /\ fl' = [fl EXCEPT !.w = @ - 1, !.f = @ + 1]
    /\ UNCHANGED flFrame

\* _fetch_with_sem: _fetch_feed returned, the semaphore is released
Release ==
    /\ fl.f > 0
    /\ fl' = [fl EXCEPT !.f = @ - 1]
    /\ UNCHANGED flFrame

\* lines 928-959: the batch is gathered; the _process_feed tasks are created
\* (k of them will reach the search fallback) and, with keywords, one fetch
\* per admin candidate
GatherBatch ==
    /\ fl.phase = "batch"
    /\ fl.w = 0 /\ fl.f = 0
    /\ \E k \in 0..Min(fl.n, Len(fl.tasks)) :
          fl' = [fl EXCEPT !.phase = "proc",
                           !.w = IF fl.kw THEN Len(ADMIN_FEEDS) ELSE 0,
                           !.tasks = [i \in Workers |->
                                        IF i <= k THEN [NoWorker EXCEPT !.pc = "idle"]
                                        ELSE NoWorker]]
    /\ UNCHANGED flFrame

\* _process_feed lines 785-787: _search_related returned links items with a
\* link; _build_text_from_search creates its semaphore and one task per item
\* of items[:6]
StartSearch(i) ==
    /\ fl.phase = "proc"
    /\ fl.tasks[i].pc = "idle"
    /\ \E links \in 0..Min(6, search_fallback_max_results) :
          fl' = [fl EXCEPT !.tasks[i] = [pc |-> "search", lw |-> links, lf |-> 0]]
    /\ UNCHANGED flFrame

\* _fetch_text: "async with sem" of this call is entered, _get_html is in flight
SearchAcquire(i) ==
    /\ fl.tasks[i].pc = "search"
    /\ fl.tasks[i].lw > 0
    /\ fl.tasks[i].lf < fetcher_concurrency
    /\ fl' = [fl EXCEPT !.tasks[i].lw = @ - 1, !.tasks[i].lf = @ + 1]
    /\ UNCHANGED flFrame

\* _fetch_text: _get_html returned
SearchRelease(i) ==
    /\ fl.tasks[i].pc = "search"
    /\ fl.tasks[i].lf > 0
    /\ fl' = [fl EXCEPT !.tasks[i].lf = @ - 1]
    /\ UNCHANGED flFrame

\* line 405: the page fetches are gathered; the task goes on without fetching
EndSearch(i) ==
    /\ fl.tasks[i].pc = "search"
    /\ fl.tasks[i].lw = 0 /\ fl.tasks[i].lf = 0
    /\ fl' = [fl EXCEPT !.tasks[i] = NoWorker]
    /\ UNCHANGED flFrame

\* lines 959-973: the admin fetches and the tasks are gathered
JoinFetch ==
    /\ fl.phase = "proc"
    /\ fl.w = 0 /\ fl.f = 0
    /\ \A i \in Workers : fl.tasks[i].pc = "done"
    /\ fl' = [fl EXCEPT !.phase = "done"]
    /\ UNCHANGED flFrame

InitFetch ==
    /\ InitCommon
    /\ InitAux2
    /\ InitAux3
    /\ feeds = InitSubs[1].feeds
    /\ keywords = InitSubs[1].keywords
    /\ everAdded = feeds
    /\ upstream = InitUpstream
    /\ nextId = FirstId
    /\ InitDisk
    /\ InitTr0
    /\ InitSm0
    /\ InitRr0
    /\ InitLg0
    /\ InitSafe0
    /\ \E n \in 1..MaxBatch, kw \in BOOLEAN :
          fl = [NoFl EXCEPT !.phase = "batch", !.n = n, !.kw = kw, !.w = n]

NextFetch ==
    \/ Acquire
    \/ Release
    \/ GatherBatch
    \/ \E i \in Workers : StartSearch(i)
    \/ \E i \in Workers : SearchAcquire(i)
    \/ \E i \in Workers : SearchRelease(i)
    \/ \E i \in Workers : EndSearch(i)
    \/ JoinFetch

SpecFetch == InitFetch /\ [][NextFetch]_vars

\* the fetches in flight: feed fetches holding the poll semaphore and page
\* fetches of the search fallbacks
InFlight == fl.f + fl.tasks[1].lf + fl.tasks[2].lf + fl.tasks[3].lf

\* ------------------------------------------------- the language of a cycle
\* One poll cycle over the chats, the summarizer the bot shares, and the
\* language buttons of the chats.
MaxSends == 2       \* summaries sent in the cycle
MaxLangSets == 2    \* language changes during the cycle
SUPPORTED == {"fa", "en"}

lgFrame == <<mainVars, pipe, sumVars, lastOp, idVars, persistVars, trCall, smCall, rr, fl,
            safeOp, in2Vars>>

\* get_chat_lang with both locales loaded: the stored code
get_chat_lang(S, c) == lang_to_store(S[c], SUPPORTED)

\* lines 881-889 for the next chat: chat_lang is read and the summarizer's
\* prompt_lang is set to it
LangSetup ==
    /\ lgRun.queue # <<>>
    /\ lgRun.call.pc = "none"
    /\ lgRun' = [lgRun EXCEPT !.cur = Head(lgRun.queue),
                           !.queue = Tail(@),
                           !.chat_lang = get_chat_lang(lgRun.store, Head(lgRun.queue)),
                           !.prompt = get_chat_lang(lgRun.store, Head(lgRun.queue))]
    /\ UNCHANGED lgFrame

\* summarize_full line 334: the system prompt is built from self.prompt_lang,
\* then the model is awaited
SummarizeBegin ==
    /\ lgRun.cur # 0
    /\ lgRun.call.pc = "none"
    /\ Len(lgRun.outs) < MaxSends
    /\ lgRun' = [lgRun EXCEPT !.call = [pc |-> "ai", prompt |-> lgRun.prompt]]
    /\ UNCHANGED lgFrame

\* summarize_full line 480: the answer is forced to self.prompt_lang;
\* _process_feed line 766: the message is rendered with chat_lang and sent
SummarizeEnd ==
    /\ lgRun.call.pc = "ai"
    /\ lgRun' = [lgRun EXCEPT !.call = NoLangCall,
                           !.outs = Append(@, [c |-> lgRun.cur, chat_lang |-> lgRun.chat_lang,
                                            prompt |-> lgRun.call.prompt,
                                            force |-> lgRun.prompt,
                                            msg |-> lgRun.chat_lang])]
    /\ UNCHANGED lgFrame

\* cb_lang: set_chat_lang(store, chat_id, code), summarizer.prompt_lang = code
CbLang(c, code) ==
    /\ lgRun.nSet < MaxLangSets
    /\ lgRun' = [lgRun EXCEPT !.store[c] = lang_to_store(code, SUPPORTED),
                           !.prompt = code,
                           !.nSet = @ + 1]
    /\ UNCHANGED lgFrame

InitLang ==
    /\ InitCommon
    /\ InitAux2
    /\ InitAux3
    /\ feeds = InitSubs[1].feeds
    /\ keywords = InitSubs[1].keywords
    /\ everAdded = feeds
    /\ upstream = InitUpstream
    /\ nextId = FirstId
    /\ InitDisk
    /\ InitTr0
    /\ InitSm0
    /\ InitRr0
    /\ InitFl0
    /\ InitSafe0
    /\ \E S \in [Chats -> SUPPORTED], p \in SUPPORTED :
          lgRun = [NoLg EXCEPT !.store = S, !.prompt = p, !.queue = <<1, 2>>]

NextLang ==
    \/ LangSetup
    \/ SummarizeBegin
    \/ SummarizeEnd
    \/ \E c \in Chats, code \in SUPPORTED : CbLang(c, code)

SpecLang == InitLang /\ [][NextLang]_vars

\* ------------------------------------------------- the seen helpers
\* _get_seen_safe and _set_seen_safe with the store calls that can raise:
\* a failing list_feeds makes user_has False, a failing get_seen reads as the
\* empty set, a failing set_seen is logged and dropped.
LookupView(S, c, lookupOk) == IF lookupOk THEN S ELSE [S EXCEPT !.feeds[c] = {}]

get_seen_safe_try(S, c, u, lookupOk, readOk) ==
    IF use_admin_cache(LookupView(S, c, lookupOk), c, u) THEN S.cache[c][u]
    ELSE IF readOk THEN get_seen(S, c, u) ELSE {}

set_seen_safe_try(S, c, u, X, lookupOk, writeOk) ==
    IF use_admin_cache(LookupView(S, c, lookupOk), c, u) THEN [S EXCEPT !.cache[c][u] = X]
    ELSE IF writeOk THEN set_seen(S, c, u, X) ELSE S

SafeOp(name, c, u, X, lookupOk, ioOk, S, T, ret) ==
    [op |-> name, c |-> c, u |-> u, X |-> X, lookupOk |-> lookupOk, ioOk |-> ioOk,
     owned |-> u \in list_feeds(S, c), seen0 |-> S.seen[c][u], cache0 |-> S.cache[c][u],
     seen1 |-> T.seen[c][u], cache1 |-> T.cache[c][u], feeds1 |-> T.feeds[c], ret |-> ret]

safeFrame == <<keywords, cursor, fallbackCache, kwKnown, kwMatches, kwSeenGlobal, statsSent,
               statsSkipped, pollVars, worldVars, logVars, runVars, bookVars,
               pipe, sumVars, idVars, langVars, persistVars, trCall, smCall, rr, fl, lgRun,
               lastOp, in2Vars>>

\* self._get_seen_safe(cid_int, url)
GetSeenSafe(c, u) ==
    /\ \E lookupOk, readOk \in BOOLEAN :
          safeOp' = SafeOp("get", c, u, {}, lookupOk, readOk, Db, Db,
                           get_seen_safe_try(Db, c, u, lookupOk, readOk))
    /\ UNCHANGED <<chats, feeds, seen, kvLast, adminSeenCache, safeFrame>>

\* self._set_seen_safe(cid_int, url, seen)
SetSeenSafe(c, u, X) ==
    /\ \E lookupOk, writeOk \in BOOLEAN :
          /\ WriteDb(set_seen_safe_try(Db, c, u, X, lookupOk, writeOk))
          /\ safeOp' = SafeOp("set", c, u, X, lookupOk, writeOk, Db,
                              set_seen_safe_try(Db, c, u, X, lookupOk, writeOk), {})
    /\ UNCHANGED safeFrame

InitSafe ==
    /\ InitCommon
    /\ InitAux
    /\ feeds = InitSubs[2].feeds
    /\ keywords = InitSubs[2].keywords
    /\ everAdded = feeds
    /\ upstream = InitUpstream
    /\ nextId = FirstId
    /\ InitDisk

NextSafe ==
    \/ \E c \in Chats, u \in AdminSet : StoreAddFeed(c, u)
    \/ \E c \in Chats, u \in AdminSet : StoreRemoveFeed(c, u)
    \/ \E c \in Chats, u \in AdminSet : GetSeenSafe(c, u)
    \/ \E c \in Chats, u \in AdminSet, X \in SeenValues : SetSeenSafe(c, u, X)

SpecSafe == InitSafe /\ [][NextSafe]_vars

\* ------------------------------------------------- polling to the end
\* Only poll cycles run, and the poll job is scheduled until the last cycle
\* has ended (job_queue.run_repeating): no subscription changes and nothing
\* is published.
SpecLive == Init /\ [][PollStep]_vars /\ WF_vars(PollStep)

\* entry e is in the content of url u
Listed(u, e) == e \in RangeOf(upstream[u])

\* ------------------------------------------------- the search throttle
\* the state every run of a single operation starts from
InitBase ==
    /\ InitCommon
    /\ InitAux2
    /\ InitCommit0
    /\ InitInputs
    /\ feeds = InitSubs[1].feeds
    /\ keywords = InitSubs[1].keywords
    /\ everAdded = feeds
    /\ upstream = InitUpstream
    /\ nextId = FirstId
    /\ InitDisk

MaxTicks == 3
MaxPolls == 3
\* int(getattr(settings, "search_fallback_throttle_sec", 600))
search_fallback_throttle_sec == 600
\* the clock when the service starts, and the time between two polls
Clock0 == 2 * search_fallback_throttle_sec
TickSec == search_fallback_throttle_sec \div 2
\* the keys of _fallback_cache: (chat_id, entry_id)
ThrPairs == Chats \X (1..2)

\* Variant without a throttle window.
throttled_never(now, last) == FALSE

\* line 782: the search runs if time.time() - last >= throttle_sec
throttled(now, last) == ~(now - last >= search_fallback_throttle_sec)

InitThrottle ==
    /\ InitBase
    /\ Init_thr_rest
    /\ thr = [now |-> Clock0,
              cache |-> [p \in ThrPairs |-> 0],
              log |-> [p \in ThrPairs |-> <<>>],
              n |-> 0,
              done |-> {}]

\* time passes between two polls
Tick ==
    /\ thr.now < Clock0 + MaxTicks * TickSec
    /\ thr' = [thr EXCEPT !.now = thr.now + TickSec]
    /\ UNCHANGED <<mainVars, pipe, sumVars, lastOp, idVars, persistVars, inputVars, thr_rest>>

\* _process_feed lines 741-861 for entry e of chat c, which is not yet
\* delivered: last = _fallback_cache.get((cid, eid), 0); the search stores
\* time.time() under the key before it awaits anything
PollEntry(c, e) ==
    /\ <<c, e>> \notin thr.done
    /\ thr.n < MaxPolls
    /\ \E struct, titled, sy, ok1, ok2, ok3 \in BOOLEAN :
        LET k == <<c, e>>
            p == entry_pipeline(struct, titled, throttled(thr.now, thr.cache[k]),
                                sy, ok1, ok2, ok3)
            poll == [t |-> thr.now, searched |-> p.searched,
                     reached |-> p.tpl # "premium" /\ titled]
        IN thr' = [thr EXCEPT
                     !.cache[k] = IF p.searched THEN thr.now ELSE @,
                     !.log[k] = Append(@, poll),
                     !.n = @ + 1,
                     !.done = IF p.tpl # "none" THEN @ \cup {k} ELSE @]
    /\ UNCHANGED <<mainVars, pipe, sumVars, lastOp, idVars, persistVars, inputVars, thr_rest>>

NextThrottle ==
    \/ Tick
    \/ \E c \in Chats, e \in 1..2 : PollEntry(c, e)

SpecThrottle == InitThrottle /\ [][NextThrottle]_vars

\* ------------------------------------------------- the calls to Gemini
MaxRuns == 4
\* settings.gemini_keys, the pool get_gemini_key cycles through
gemini_keys == <<"key_a", "key_b">>
\* get_gemini_key is called once in the body of class Summarizer (line 288)
\* and once when the bot builds the Summarizer (bot.py line 96)
StartupDraws == 2

\* Variant that always hands out the first key of the pool.
get_gemini_key_first(pos) == [key |-> gemini_keys[1], pos |-> pos]

\* next(_key_cycle) over itertools.cycle(settings.gemini_keys)
get_gemini_key(pos) == [key |-> gemini_keys[pos], pos |-> (pos % Len(gemini_keys)) + 1]

\* Variant that puts the two short prompts in the sequence for every text.
prompt_sequence_all(short) ==
    Prefix(<<"strict", "softer", "unstructured", "just_tldr", "just_bullets">>,
           summary_max_attempts)

\* lines 356-360: strict, softer, unstructured, and for a base shorter than
\* summary_short_threshold also just_tldr and just_bullets; [:max_attempts]
prompt_sequence(short) ==
    Prefix(<<"strict", "softer", "unstructured">>
             \o (IF short THEN <<"just_tldr", "just_bullets">> ELSE <<>>),
           summary_max_attempts)

\* the first position of seq whose answer is accepted (0: none)
RECURSIVE first_parsed(_, _, _)
first_parsed(ok, i, n) ==
    IF i > n THEN 0 ELSE IF ok[i] THEN i ELSE first_parsed(ok, i + 1, n)

\* lines 410-449.  ok[i]: the answer of the i-th call made yields a tldr,
\* bullets, opportunities, risks or a signal (for the call after the loop: a
\* tldr or bullets).  The loop breaks at the first such answer; if there is
\* none, just_tldr is asked once more.
attempts(short, ok) ==
    LET seq == prompt_sequence(short)
        k == first_parsed(ok, 1, Len(seq))
    IN IF k > 0 THEN [made |-> Prefix(seq, k), parsed |-> k]
       ELSE [made |-> seq \o <<"just_tldr">>,
             parsed |-> IF ok[Len(seq) + 1] THEN Len(seq) + 1 ELSE 0]

InitGemini ==
    /\ InitBase
    /\ Init_gm_rest
    /\ gm = [pos |-> (StartupDraws % Len(gemini_keys)) + 1, draws |-> <<>>,
             calls |-> <<>>, last |-> <<>>]

gmFrame == <<mainVars, pipe, sumVars, lastOp, idVars, persistVars, inputVars, gm_rest>>

\* summarize_full returns at line 309 or 313: nothing is drawn or asked
SummarizeIdle ==
    /\ gm.last # <<[short |-> FALSE, made |-> <<>>, parsed |-> 0, empty |-> TRUE]>>
    /\ gm' = [gm EXCEPT !.last = <<[short |-> FALSE, made |-> <<>>, parsed |-> 0,
                                    empty |-> TRUE]>>]
    /\ UNCHANGED gmFrame

\* summarize_full from line 317 on: one key is drawn and configured, the
\* model is built (init_ok), and every _call_ai of the call goes to that model
SummarizeRun ==
    /\ Len(gm.draws) < MaxRuns
    /\ \E short, init_ok \in BOOLEAN : \E ok \in [1..6 -> BOOLEAN] :
        LET g == get_gemini_key(gm.pos)
            a == IF init_ok THEN attempts(short, ok) ELSE [made |-> <<>>, parsed |-> 0]
        IN gm' = [pos |-> g.pos,
                  draws |-> Append(gm.draws, g.key),
                  calls |-> gm.calls \o [i \in 1..Len(a.made) |-> g.key],
                  last |-> <<[short |-> short, made |-> a.made, parsed |-> a.parsed,
                              empty |-> a.parsed = 0]>>]
    /\ UNCHANGED gmFrame

NextGemini ==
    \/ SummarizeIdle
    \/ SummarizeRun

SpecGemini == InitGemini /\ [][NextGemini]_vars

\* the five prompts in the order of the ladder
Ladder == <<"strict", "softer", "unstructured", "just_tldr", "just_bullets">>
\* the calls summarize_full makes when no answer is accepted
LadderOf(short) ==
    IF short THEN Ladder \o <<"just_tldr">>
    ELSE <<"strict", "softer", "unstructured", "just_tldr">>
\* the calls r made are the first calls of ladder L, they end at the first
\* accepted answer, and the result is empty only after the whole of L
FirstWins(r, L) ==
    /\ Len(r.made) <= Len(L)
    /\ r.made = Prefix(L, Len(r.made))
    /\ r.parsed \in {0, Len(r.made)}
    /\ r.empty <=> r.parsed = 0
    /\ (r.empty /\ r.made # <<>>) => r.made = L
\* how often key occurs in s[a..b]
Uses(s, a, b, key) == Cardinality({i \in a..b : s[i] = key})
\* any n*k consecutive elements of s use each key of the pool k times
RoundRobin(s) ==
    LET n == Len(gemini_keys)
    IN \A k \in 1..(Len(s) \div n) : \A a \in 1..(Len(s) - n * k + 1) :
        \A j \in 1..n : Uses(s, a, a + n * k - 1, gemini_keys[j]) = k

\* ------------------------------------------------- the urls requested
MaxRequests == 2
\* a url: its scheme, and its host as a name or as four octets
HostName(n) == [name |-> n, o |-> <<>>]
HostIp(a, b) == [name |-> "", o |-> <<a, b, 0, 1>>]
GuardHosts == {HostName("example.com"), HostName("localhost"), HostName("[::1]"),
               HostIp(127, 0), HostIp(10, 0), HostIp(192, 168), HostIp(172, 16),
               HostIp(172, 32), HostIp(8, 8)}
GuardUrls == [scheme : {"http", "https", "file"}, host : GuardHosts]
NoUrl == [scheme |-> "", host |-> HostName("")]

\* fetcher._is_private_host (lines 44-67) on netloc.split(":")[0]: of the
\* bracketed netloc of an IPv6 literal only "[" is left, which matches nothing
_is_private_host(h) ==
    IF h.name = "localhost" THEN TRUE
    ELSE IF h.o # <<>>
         THEN \/ h.o[1] = 127
              \/ h.o[1] = 10
              \/ (h.o[1] = 192 /\ h.o[2] = 168)
              \/ (h.o[1] = 172 /\ 16 <= h.o[2] /\ h.o[2] <= 31)
    ELSE FALSE

\* fetch_article_text lines 217-228: the url is let through
guard_passes(url) == url.scheme \in {"http", "https"} /\ ~_is_private_host(url.host)

\* localhost, loopback and the private ranges
PrivateHost(h) == h.name \in {"localhost", "[::1]"} \/ _is_private_host(h)
Allowed(url) == url.scheme \in {"http", "https"} /\ ~PrivateHost(url.host)

InitGuard ==
    /\ InitBase
    /\ Init_rq_rest
    /\ rq = <<>>

rqFrame == <<mainVars, pipe, sumVars, lastOp, idVars, persistVars, inputVars, rq_rest>>

\* RSSService._fetch_feed: c.get(url)
FetchFeed(url) ==
    /\ Len(rq) < MaxRequests
    /\ rq' = Append(rq, [op |-> "_fetch_feed", url |-> url])
    /\ UNCHANGED rqFrame

\* RSSService._get_html: c.get(url)
GetHtml(url) ==
    /\ Len(rq) < MaxRequests
    /\ rq' = Append(rq, [op |-> "_get_html", url |-> url])
    /\ UNCHANGED rqFrame

\* fetch_article_text: the guard, then s.get(url); when the text is short
\* and the page names an amphtml link (amp # NoUrl), s.get(urljoin(url, href))
FetchArticleText(url, amp) ==
    /\ Len(rq) < MaxRequests
    /\ guard_passes(url)
    /\ rq' = rq \o <<[op |-> "fetch_article_text", url |-> url]>>
                \o (IF amp # NoUrl /\ Len(rq) + 1 < MaxRequests
                    THEN <<[op |-> "amphtml", url |-> amp]>> ELSE <<>>)
    /\ UNCHANGED rqFrame

NextGuard ==
    \/ \E url \in GuardUrls : FetchFeed(url)
    \/ \E url \in GuardUrls : GetHtml(url)
    \/ \E url \in GuardUrls, amp \in GuardUrls \cup {NoUrl} : FetchArticleText(url, amp)

SpecGuard == InitGuard /\ [][NextGuard]_vars

\* ------------------------------------------------- the keyword event log
\* SQLiteStateStore.log_keyword_event (state.py 846-852): one row is
\* inserted.  Nothing in src/ calls it, so no action of the poll cycle does.
log_keyword_event(E, chat_id, keyword, feed_url, item_id) ==
    E \cup {[chat_id |-> chat_id, keyword |-> keyword, feed_url |-> feed_url,
             item_id |-> item_id]}

\* the items of the digests delivered to cur so far in this cycle, as rows
DeliveredMatches ==
    UNION {{[chat_id |-> cur, keyword |-> digestLog[j].kw,
             feed_url |-> digestLog[j].items[i][2], item_id |-> digestLog[j].items[i][1]]
              : i \in 1..Len(digestLog[j].items)}
           : j \in {n \in 1..Len(digestLog) : digestLog[n].ok}}

\* ------------------------------------------------- the site providers
MaxListed == 12
\* all_terms[:10], all_jobs[:10]
provider_cap == 10

\* process_google_trends lines 14-36 and process_remoteok lines 395-419:
\* the new items, then the seen ones; the first provider_cap are rendered;
\* every new item is added to seen
process_provider(listed, seen0) ==
    LET new_items == SelectSeq(listed, LAMBDA e : e \notin seen0)
        all_items == new_items \o SelectSeq(listed, LAMBDA e : e \in seen0)
    IN IF new_items = <<>> THEN [out |-> <<>>, seen |-> seen0]
       ELSE [out |-> Prefix(all_items, provider_cap),
             seen |-> seen0 \cup RangeOf(new_items)]

\* the site lists n items, newest first; the oldest of them were seen before
InitProvider ==
    /\ InitBase
    /\ Init_prv_rest
    /\ \E n \in 0..MaxListed : \E k \in 0..n :
        prv = [listed |-> [i \in 1..n |-> i], before |-> (n - k + 1)..n,
               seen |-> (n - k + 1)..n, out |-> <<>>, ran |-> FALSE]

\* one call of the provider for (chat, url)
ProcessProvider ==
    /\ ~prv.ran
    /\ LET r == process_provider(prv.listed, prv.seen)
       IN prv' = [prv EXCEPT !.seen = r.seen, !.out = r.out, !.ran = TRUE]
    /\ UNCHANGED <<mainVars, pipe, sumVars, lastOp, idVars, persistVars, inputVars, prv_rest>>

SpecProvider == InitProvider /\ [][ProcessProvider]_vars

\* ------------------------------------------------- payment confirmation
MaxConfirms == 3
MaxPeriods == 2
\* time is counted in days; a period is the time between two callbacks
PeriodDays == 20
\* the days a plan buys, and the end dates a chat can have before it pays
PlanDays == {30, 90}
SubEnds == {0, 10, 50}
RefIds == {"ref1", "ref2"}
Max2(a, b) == IF a > b THEN a ELSE b

\* PaymentsDB.update_payment_status: status and ref_id are both overwritten
update_payment_status(p, status, ref_id) == [p EXCEPT !.status = status, !.ref_id = ref_id]

\* PaymentsDB.activate_subscription: max(now, end_date) + days, or now + days
\* for a chat without a row
activate_subscription(p, days) ==
    [p EXCEPT !.sub = IF p.sub # 0 THEN Max2(p.now, p.sub) + days ELSE p.now + days]

\* confirm_payment for the authority of the row: zarinpal.verify_payment
\* answers ok with a ref_id, or not ok (an error, or a code other than 100)
confirm_payment(p, ok, ref) ==
    IF ok THEN activate_subscription(update_payment_status(p, "success", ref), p.days)
    ELSE update_payment_status(p, "failed", "")

InitPay ==
    /\ InitBase
    /\ Init_pay_rest
    /\ \E d \in PlanDays, s \in SubEnds :
        pay = [status |-> "pending", ref_id |-> "", days |-> d, sub |-> s,
               now |-> 1, first |-> <<>>, n |-> 0]

payFrame == <<mainVars, pipe, sumVars, lastOp, idVars, persistVars, inputVars, pay_rest>>

\* payment_callback with Status = OK for the authority
ConfirmPayment ==
    /\ pay.n < MaxConfirms
    /\ \E ok \in BOOLEAN, ref \in RefIds :
        LET p == confirm_payment(pay, ok, ref)
        IN pay' = [p EXCEPT !.n = @ + 1,
                            !.first = IF pay.first = <<>> /\ ok
                                      THEN <<[ref_id |-> p.ref_id, sub |-> p.sub]>>
                                      ELSE @]
    /\ UNCHANGED payFrame

\* time passes between two callbacks
PassPeriod ==
    /\ pay.now < 1 + MaxPeriods * PeriodDays
    /\ pay' = [pay EXCEPT !.now = @ + PeriodDays]
    /\ UNCHANGED payFrame

NextPay ==
    \/ ConfirmPayment
    \/ PassPeriod

SpecPay == InitPay /\ [][NextPay]_vars

\* =============================================================== claims
GenericUrls == {u \in Urls : ~ProviderMatches(u)}
SeenOf(c, u) == seen[c][u] \cup adminSeenCache[c][u]
DeliveredOf(c, u) == {e \in 1..(FirstId + MaxEvents) \cup {NewsKey} : <<u, e>> \in delivered[c]}
RunEnded == phase = "flush" /\ flushQ = <<>>

C2_NoResend == ~redelivered

\* C3: every id in a seen-set of (chat, feed url) belongs to an item that a
\* successfully sent message carried to that chat.
C3_SeenOnlyDelivered ==
    \A c \in Chats, u \in GenericUrls : SeenOf(c, u) \subseteq DeliveredOf(c, u)

\* C4: the feeds list of a chat contains an admin-curated url only if the
\* chat passed that url to add_feed.
C4_OwnershipIsolation ==
    \A c \in Chats : (feeds[c] \cap AdminSet) \subseteq everAdded[c]

\* a chat that never added the admin url had it scanned for its keyword, got
\* the digest and had the match recorded as seen
C4_Witness ==
    \E c \in Chats, u \in AdminSet :
        /\ u \notin everAdded[c]
        /\ adminSeenCache[c][u] # {}
        /\ DeliveredOf(c, u) # {}
        /\ RunEnded /\ cur = c

\* C5: while the chat holds the url in its feeds list, the persisted seen-set
\* of the pair never loses an id.
C5_SeenMonotonic ==
    [][\A c \in Chats, u \in Urls :
          (u \in feeds[c] /\ u \in feeds'[c]) => seen[c][u] \subseteq seen'[c][u]]_vars

\* C6: a step changes the seen state and the deliveries of no chat but the
\* one it acts for, and the entries scheduled for a chat at dispatch are
\* exactly the fetched entries that chat's own seen-set lacks.
C6_Independent ==
    [][/\ \A d \in Chats : d # actor' =>
              /\ seen'[d] = seen[d]
              /\ adminSeenCache'[d] = adminSeenCache[d]
              /\ delivered'[d] = delivered[d]
       /\ (phase = "fetch" /\ phase' \in {"admin", "join"}) =>
              \A i \in 1..Len(batch) :
                  LET u == batch[i]
                      f == runNow'[cur].u[i]
                  IN (f.ok /\ u \in feeds[cur] /\ ~ProviderMatches(u)) =>
                         RangeOf(tasks'[u].todo) = RangeOf(f.entries) \ seen[cur][u]
      ]_vars

\* both chats hold the same url, and the same entry was delivered to both
C6_Witness ==
    \E u \in GenericUrls, e \in 1..FirstId :
        /\ \A c \in Chats : u \in feeds[c] /\ e \in seen[c][u] /\ <<u, e>> \in delivered[c]


\* C7: when chat 1, subscribed to f1 with its three unseen entries, has been
\* polled once, the fetch and every send having succeeded, it was sent
\* exactly three messages, the entries oldest first, and the seen-set of
\* (1, f1) holds exactly the three ids.
C7_ThreeMessages ==
    (/\ RunEnded /\ cur = 1 /\ cycle = 1
     /\ runNow[1].clean
     /\ runNow[1].u = <<Feed(<<3, 2, 1>>)>>)
    => /\ Len(entryLog["f1"]) + Len(digestLog) = 3
       /\ entryLog["f1"] = <<1, 2, 3>>
       /\ seen[1]["f1"] = {1, 2, 3}

DigestSizes == [j \in 1..Len(digestLog) |-> Len(digestLog[j].items)]
RECURSIVE DigestItems(_)
DigestItems(log) == IF log = <<>> THEN <<>> ELSE Head(log).items \o DigestItems(Tail(log))
Flushed == kwMatches[cur]["k1"]

C9_CircuitBreaker == lastCall.inWindow => (lastCall.ext = 0 /\ lastCall.empty)

StructuredEmpty == ~pipe.in[1]
SearchHasContent == pipe.in[4]
SearchRun == pipe.in[2] /\ ~pipe.in[3]
SearchSendOk == pipe.in[6]

C11_BlockedDeleted ==
    \A c \in blocked :
        /\ phase = "idle" => c \notin chats
        /\ phase = "fetch" => cur # c

\* C12: after a chat was destroyed (drop_chat found it, or delete_chat ran),
\* the store shows no feed, no seen record and no keyword for its id.
C12_CascadeDelete ==
    (lastOp.op \in {"drop_chat", "delete_chat"} /\ lastOp.ret) =>
        /\ list_feeds(Db, lastOp.c) = {}
        /\ \A u \in Urls : get_seen(Db, lastOp.c, u) = {}
        /\ keywords[lastOp.c] = <<>>

\* C13: add_feed returns False and leaves the feeds of the chat unchanged when
\* the chat already holds the url, and returns True only when it adds it.
C13_AddFeedResult ==
    [][lastOp'.op = "add_feed" =>
          LET c == lastOp'.c
              u == lastOp'.u
          IN /\ u \in feeds[c] => (~lastOp'.ret /\ feeds' = feeds)
             /\ lastOp'.ret => (u \notin feeds[c] /\ feeds'[c] = feeds[c] \cup {u})
      ]_vars

\* C14: remove_feed of a url the chat holds leaves the seen-set of the pair
\* empty and every other seen-set, of the chat and of the other chats, as it
\* was.
C14_RemoveCascades ==
    [][(lastOp'.op = "remove_feed" /\ lastOp'.ret) =>
          /\ get_seen([Db EXCEPT !.seen = seen'], lastOp'.c, lastOp'.u) = {}
          /\ \A d \in Chats, v \in Urls :
                 (d # lastOp'.c \/ v # lastOp'.u) => seen'[d][v] = seen[d][v]
      ]_vars

\* a pair with seen records was removed while another url of the chat and
\* the same url of the other chat kept theirs
C14_Witness ==
    /\ lastOp.op = "remove_feed" /\ lastOp.ret /\ lastOp.had # {}
    /\ seen[lastOp.c][lastOp.u] = {}
    /\ \E v \in Urls \ {lastOp.u} : seen[lastOp.c][v] # {}
    /\ \E d \in Chats \ {lastOp.c} : seen[d][lastOp.u] # {}

\* ids are given to entries in the order the sites publish them: of two
\* entries of one url, the one with the smaller id is the older
EntryIds == 1..(FirstId + MaxEvents)

\* C15: when an entry of a url is delivered to a chat for the first time, no
\* newer entry of that url has been delivered to the chat before.
C15_OldestFirst ==
    [][\A c \in Chats, u \in GenericUrls, e \in EntryIds :
          (<<u, e>> \in delivered'[c] /\ <<u, e>> \notin delivered[c]) =>
              \A e2 \in EntryIds : e2 > e => <<u, e2>> \notin delivered[c]
      ]_vars

\* position of the first x in s, 0 if x does not occur
Pos(s, x) ==
    IF \E i \in 1..Len(s) : s[i] = x
    THEN CHOOSE i \in 1..Len(s) : s[i] = x /\ \A j \in 1..(i - 1) : s[j] # x
    ELSE 0
Count(s, x) == Cardinality({i \in 1..Len(s) : s[i] = x})

C17_AtEnd ==
    \A u \in Urls : Pos(srcLog[u], "raise") # 0 =>
        /\ u \notin provLog
        /\ tasks[u].pc = "done"
        /\ (RunEnded /\ runNow[cur].on /\ runNow[cur].clean) =>
               \A i \in 1..Len(batch) :
                   (batch[i] # u /\ runNow[cur].u[i].ok /\ batch[i] \in feeds[cur]) =>
                       RangeOf(CapEntries(runNow[cur].u[i])) \subseteq seen[cur][batch[i]]

\* the step that creates the tasks of a batch in which the provider call
\* raises: the task of every other fetched feed the chat holds is created
\* with all the entries of the fetch that the chat has not seen
C17_OnDispatch ==
    (phase = "fetch" /\ phase' \in {"admin", "join"}) =>
        \A u \in Urls : Pos(srcLog'[u], "raise") # 0 =>
            \A i \in 1..Len(batch) :
                (batch[i] # u /\ runNow'[cur].u[i].ok /\ batch[i] \in feeds[cur]) =>
                    RangeOf(tasks'[batch[i]].todo) =
                        RangeOf(CapEntries(runNow'[cur].u[i])) \ seen[cur][batch[i]]

\* C17: when the provider call for a url of the batch raised, no provider
\* message is sent for that url in the cycle, and the other urls of the batch
\* are processed all the same: their tasks are created with every unseen
\* entry of their fetch, and when the run has ended, all its sends having
\* succeeded and no command having touched the chat, every entry fetched
\* from them is in the seen-set.
C17_ProviderIsolated == []C17_AtEnd /\ [][C17_OnDispatch]_vars

\* the provider call raised for gold and the entries of another feed of the
\* same batch were sent in the same run
C17_Witness ==
    /\ RunEnded /\ runNow[cur].on /\ runNow[cur].clean
    /\ Pos(srcLog["gold"], "raise") # 0
    /\ \E v \in GenericUrls : v \in RangeOf(batch) /\ entryLog[v] # <<>>

\* the chats of the snapshot that come after the one poll_once is at
Remaining ==
    IF phase = "setup" THEN (IF queue = <<>> THEN <<>> ELSE Tail(queue)) ELSE queue

\* C18: poll_once ends only when no chat of its snapshot remains to be
\* processed; a store failure during one chat's iteration leaves the chats
\* after it to be processed in the same cycle.
C18_StoreFaultLocal ==
    [][(phase # "idle" /\ phase' = "idle") => Remaining = <<>>]_vars

\* a step of a task or of the flush in which a send raised
SendFailedStep == nEvt' > nEvt /\ (tasks' # tasks \/ flushQ' # flushQ)

\* C19: a step in which a send raised leaves everything that was still to be
\* done in place: the task goes on with the remaining entries of its url, the
\* other tasks of the chat are untouched, the keyword matches collected for
\* the digests are kept, the remaining digests stay queued, and the cycle
\* stays where it was, with the other chats still queued.
C19_FailureLocal ==
    [][SendFailedStep =>
          /\ phase' = phase /\ queue' = queue /\ cur' = cur
          /\ kwMatches' = kwMatches /\ kwKnown' = kwKnown
          /\ \A u \in Urls : tasks'[u] # tasks[u] =>
                 /\ tasks[u].pc = "run" => /\ tasks'[u].todo = Tail(tasks[u].todo)
                                           /\ tasks'[u].pc = IF Len(tasks[u].todo) > 1
                                                             THEN "run" ELSE "done"
                 /\ \A v \in Urls \ {u} : tasks'[v] = tasks[v]
          /\ flushQ' # flushQ => flushQ' = Tail(flushQ)
      ]_vars

\* a send to chat 1 raised in the first cycle; chat 1 still got both entries
\* of f1 recorded and the entry after the failure delivered, and chat 2,
\* processed after it in the same cycle, got both entries
C19_Witness ==
    /\ cycle = 1 /\ cur = 2 /\ RunEnded
    /\ runNow[1].on /\ ~runNow[1].clean
    /\ <<"f1", 2>> \in delivered[1]
    /\ seen[1]["f1"] = {1, 2}
    /\ entryLog["f1"] = <<1, 2>>

\* an explicit id, else a permalink, else a title with a published time
StableIdentity(e) ==
    e.id # "" \/ e.link # "" \/ (e.title # "" /\ e.published_parsed # <<>>)

TrChain(lg) == <<norm_lang(lg), DEFAULT_LANG, "en">>

\* C22: t returns, with the placeholders filled in, the first non-empty text
\* that the requested language, the default language and English hold for
\* the key, in that order; if none of them holds one it returns the key.
C22_FallbackChain ==
    trCall.out # NoOut =>
        LET ch == TrChain(trCall.lang)
            hit == {i \in 1..3 : Truthy(trCall.locales[ch[i]])}
        IN trCall.out =
              safe_substitute(
                  IF hit = {} THEN <<TrKey>>
                  ELSE trCall.locales[ch[CHOOSE i \in hit : \A j \in hit : i <= j]].text,
                  trCall.page)

\* an unknown language was requested, the default language is loaded but
\* holds an empty text for the key, and the English text came back
C22_Witness ==
    /\ trCall.lang = "de" /\ ~trCall.locales["de"].loaded
    /\ trCall.locales["fa"].has /\ trCall.locales["fa"].text = <<>>
    /\ trCall.page = "1"
    /\ trCall.out = <<"en", ":", "1">>

\* C23: every call of summarize on a non-empty text with no API key returns,
\* and returns a non-empty TLDR, also after prompt_lang was switched.
C23_LiteFallback ==
    (smCall.key = "" /\ base_len(smCall.title, smCall.text) > 0) =>
        \A i \in 1..Len(smCall.outs) :
            smCall.outs[i].exc = "" /\ smCall.outs[i].tldr > 0

\* C24: a url that chat c does not hold (removed, or never added) is not made
\* a subscription of c by any step of the poll cycle, and its seen rows stay
\* empty, also when a task of the url is still running; only add_feed
\* creates the subscription.
C24_PollStep == pollVars' # pollVars
C24_RemovedStaysRemoved ==
    [][\A c \in Chats, u \in Urls :
          (u \notin feeds[c] /\ C24_PollStep) =>
              (u \notin feeds'[c] /\ seen'[c][u] = {})]_vars

C26_BatchBound ==
    \A j \in 1..Len(rr.hist) :
        /\ Cardinality(rr.hist[j].processed) <= rss_batch_size
        /\ rr.hist[j].processed \subseteq rr.hist[j].fetched
        /\ Cardinality(rr.hist[j].fetched) <= rss_batch_size + Len(ADMIN_FEEDS)
C26_Witness ==
    \E j \in 1..Len(rr.hist) :
        /\ rr.n > rss_batch_size
        /\ Cardinality(rr.hist[j].processed) = rss_batch_size
        /\ Cardinality(rr.hist[j].fetched) = rss_batch_size + Len(ADMIN_FEEDS)

\* C26 as stated: in every cycle at most batch_size of the chat's feeds are
\* fetched.
C26_Original ==
    \A j \in 1..Len(rr.hist) : Cardinality(rr.hist[j].fetched) <= rss_batch_size

\* C27: at every moment of a cycle the number of fetches in flight, feed
\* fetches and page fetches of the search fallback together, is at most the
\* size of the poll semaphore.
C27_FetchBound == InFlight <= rss_fetch_concurrency

\* C28: a keyword digest of a chat is sent only when the admin scan of the
\* cycle is over and every _process_feed task of the chat has finished.
C28_DigestSent == Len(digestLog') > Len(digestLog)
C28_JoinBeforeFlush ==
    [][C28_DigestSent => (phase = "flush" /\ \A u \in Urls : tasks[u].pc = "done")]_vars
C28_Witness ==
    /\ digestLog # <<>>
    /\ \E u \in Urls : entryLog[u] # <<>>
    /\ runNow[cur].a # <<>>

\* C29: every summary and message sent while chat c is processed uses the
\* language that was read for c at the start of its iteration, whatever the
\* other chats' languages are and whatever languages are set meanwhile.
C29_OneLocale ==
    \A i \in 1..Len(lgRun.outs) :
        /\ lgRun.outs[i].msg = lgRun.outs[i].chat_lang
        /\ lgRun.outs[i].prompt = lgRun.outs[i].chat_lang
        /\ lgRun.outs[i].force = lgRun.outs[i].chat_lang

\* C30: for an admin url the chat does not hold, the seen helpers read and
\* write the admin cache and leave the chat's seen rows and feeds alone; for
\* an admin url the chat holds, with the store answering, they read and
\* write the chat's seen rows and leave the cache alone.
IsolatedNamespace ==
    (safeOp.op # "none" /\ ~safeOp.owned) =>
        /\ safeOp.seen1 = safeOp.seen0
        /\ safeOp.u \notin safeOp.feeds1
        /\ safeOp.op = "get" => safeOp.ret = safeOp.cache0
        /\ safeOp.op = "set" => safeOp.cache1 = safeOp.X
RealNamespace(answers) ==
    (safeOp.op # "none" /\ safeOp.owned /\ answers) =>
        /\ safeOp.cache1 = safeOp.cache0
        /\ safeOp.op = "get" => safeOp.ret = safeOp.seen0
        /\ safeOp.op = "set" => safeOp.seen1 = safeOp.X
C31_AtLeastOnce ==
    \A c \in Chats, u \in GenericUrls, e \in 1..FirstId :
        [](u \in feeds[c] /\ Listed(u, e)) =>
            <>[](<<u, e>> \in delivered[c] \/ e \notin seen[c][u])


\* C32: for one (subscriber, entry) pair two external searches are never less
\* than a throttle window apart, so a poll of the still undelivered entry
\* inside the window of an earlier search performs no search.
C32_Throttled ==
    \A k \in DOMAIN thr.log :
        \A i, j \in 1..Len(thr.log[k]) :
            (i < j /\ thr.log[k][i].searched /\ thr.log[k][j].searched)
                => thr.log[k][j].t - thr.log[k][i].t >= search_fallback_throttle_sec

\* a pair is searched, polled again inside the window without a search
\* although the poll reaches the search stage, and searched again after it
C32_Witness ==
    \E k \in DOMAIN thr.log :
        /\ Len(thr.log[k]) = 3
        /\ thr.log[k][1].searched
        /\ thr.log[k][2].reached /\ ~thr.log[k][2].searched
        /\ thr.log[k][2].t - thr.log[k][1].t < search_fallback_throttle_sec
        /\ thr.log[k][2].t > thr.log[k][1].t
        /\ thr.log[k][3].searched


\* C33 (amended): the calls of one summarize_full are made in the order
\* strict, softer, unstructured, just_tldr, and for a short text
\* just_bullets after just_tldr and then just_tldr once more; the first
\* accepted answer ends them, and the result is empty only if every call of
\* that sequence was made and none was accepted.
C33_Ladder == \A i \in 1..Len(gm.last) : FirstWins(gm.last[i], LadderOf(gm.last[i].short))

\* a long text: four calls, just_bullets is never asked, the result is empty;
\* or a short text whose sixth call, the second just_tldr, is the accepted one
C33_Witness ==
    /\ gm.last # <<>>
    /\ gm.last[1].made # <<>>
    /\ \/ ~gm.last[1].short /\ gm.last[1].empty
       \/ gm.last[1].short /\ gm.last[1].parsed = 6

\* C33 as stated: the calls follow the five-step ladder whatever the text.
C33_Original == \A i \in 1..Len(gm.last) : FirstWins(gm.last[i], Ladder)

C35_SsrfGuard == \A i \in 1..Len(rq) : Allowed(rq[i].url)


\* C36: every keyword-matched item delivered in a digest has a row in the
\* keyword event log naming the chat, the keyword, the feed url and the item.
C36_EventLogged == DeliveredMatches \subseteq keyword_events


\* the matches held for chat c, as <<url, id>> pairs
AccItems(c) ==
    UNION {{<<kwMatches[c][k][i][2], kwMatches[c][k][i][1]>> : i \in 1..Len(kwMatches[c][k])}
           : k \in DOMAIN kwMatches[c]}
\* only the chat whose iteration is running holds matches
AccOnlyOfCur ==
    \A c \in Chats :
        (phase \in {"idle", "setup"} \/ c # cur)
            => (kwMatches[c] = NoMatches /\ kwSeenGlobal[c] = {})
\* a digest carries matches of the running chat and reaches that chat only
FlushToCur ==
    Len(digestLog') > Len(digestLog)
        => /\ ChunkItems(digestLog'[Len(digestLog')].items) \subseteq AccItems(cur)
           /\ \A c \in Chats \ {cur} : delivered'[c] = delivered[c]

\* C37: the keyword matches of a chat are held only while that chat's
\* iteration of the cycle runs and are flushed to that chat in it: between
\* iterations, and so when the chat's next cycle starts, its accumulator is
\* empty.
C37_AccumulatorScoped == []AccOnlyOfCur /\ [][FlushToCur]_vars

\* the second cycle of a chat whose matches of the first cycle were flushed
\* starts with an empty accumulator
C37_Witness ==
    /\ cycle = 2
    /\ phase = "fetch"
    /\ cur \in kwKnown
    /\ \E u \in AdminSet : u \notin feeds[cur] /\ \E e \in 1..FirstId : <<u, e>> \in delivered[cur]
    /\ kwMatches[cur] = NoMatches


\* C38: every id a provider call adds to the seen-set is the id of an item
\* of the output it rendered.
C38_SeenIsRendered == (prv.seen \ prv.before) \subseteq RangeOf(prv.out)


\* the messages a step delivers: an entry message, a digest, a provider message
SentInStep ==
    Cardinality({u \in Urls : Len(entryLog'[u]) > Len(entryLog[u])})
    + (IF Len(digestLog') > Len(digestLog) /\ digestLog'[Len(digestLog')].ok
       THEN 1 ELSE 0)
    + Cardinality(provLog' \ provLog)

\* C39: stats["sent"] is reset when the cycle starts, and every step of the
\* cycle adds to it the number of messages the step delivered, so that at
\* the end of poll_once it is the number of messages delivered in the cycle.
C39_SentCounted == [][phase # "idle" => statsSent' - statsSent = SentInStep]_vars


\* C40: once the payment of an authority has reached status success, it
\* keeps status success and its ref_id, and the end date of the subscription
\* stays the one the first confirmation set.
C40_Idempotent ==
    pay.first # <<>> =>
        /\ pay.status = "success"
        /\ pay.ref_id = pay.first[1].ref_id
        /\ pay.sub = pay.first[1].sub

====
